---------------------------- MODULE Spec2Model ----------------------------
(***************************************************************************)
(* Golden Copy Manager (src/Golden_Copy_Manager.py): the clipboard history *)
(* store, the single-instance arbiter, the global-hotkey capture sources   *)
(* and the event queue that the controller drains.                         *)
(*                                                                         *)
(* Texts are sequences of one-character strings, so that strip() and       *)
(* casefold() are computed and not assumed.                                *)
(***************************************************************************)
EXTENDS Integers, Sequences, FiniteSets, TLC

(***************************************************************************)
(* Bounds of the model.                                                    *)
(***************************************************************************)
\* MAX_ITEMS is 50 in the source (line 36); the model scales it down so that
\* capacity eviction happens with a handful of distinct texts.
MAX_ITEMS == 2
\* time.time() when the controller is constructed; persisted timestamps are
\* earlier (0 .. StartTime - 1).
StartTime == 2
\* How many captures (readings of time.time() by _add_to_history) a run makes.
MaxCaptures == 2
\* Longest persisted record list that Init loads.
MaxFileLen == 2
\* How many launches of the program (processes running main()) there are.
NumProcs == 2
\* How many events the sources of one run put on the controller's queue.
MaxEvents == 3
\* How many messages wait in the hotkey window's message queue.
MaxMsgs == 1
\* How many times the user presses Apply in the hotkey dialog.
MaxApplies == 1
\* Longest legacy record list (a plain list of strings) that is loaded.
MaxLegacyLen == 3
\* MAX_SEARCH_CHARS is 200 in the source (line 39); the model scales it down.
MAX_SEARCH_CHARS == 4

(***************************************************************************)
(* Texts.                                                                  *)
(***************************************************************************)
\* What the OS clipboard (or a persisted "text" field) can hold.
RawTexts ==
    { <<>>, <<" ">>, <<"a">>, <<"A">>, <<" ", "a">>, <<"b", " ">>, <<"a", "b">> }

IsSpace(c) == c = " "

RECURSIVE lstrip(_)
lstrip(s) == IF s # <<>> /\ IsSpace(Head(s)) THEN lstrip(Tail(s)) ELSE s

RECURSIVE rstrip(_)
rstrip(s) ==
    IF s # <<>> /\ IsSpace(s[Len(s)]) THEN rstrip(SubSeq(s, 1, Len(s) - 1)) ELSE s

\* str.strip()
strip(s) == rstrip(lstrip(s))

casefold_char(c) == CASE c = "A" -> "a" [] c = "B" -> "b" [] OTHER -> c

\* str.casefold()
casefold(s) == [i \in 1..Len(s) |-> casefold_char(s[i])]

Texts == { strip(r) : r \in RawTexts } \ { <<>> }

\* self.last_clip = None
NoClip == <<>>

(***************************************************************************)
(* Sequence helpers (Python list operations).                              *)
(***************************************************************************)
\* list.pop(i) with a 1-based index
PopAt(s, i) == SubSeq(s, 1, i - 1) \o SubSeq(s, i + 1, Len(s))

\* list.insert(k, e) with Python's 0-based k (k <= len)
InsertAt(s, k, e) == SubSeq(s, 1, k) \o <<e>> \o SubSeq(s, k + 1, Len(s))

\* sum(1 for h in history if h["pinned"])
pinned_count(h) == Cardinality({ i \in 1..Len(h) : h[i].pinned })

unpinned_count(h) == Cardinality({ i \in 1..Len(h) : ~h[i].pinned })

IsPinned(e) == e.pinned
IsUnpinned(e) == ~e.pinned

\* {"text": ..., "fold": ..., "ts": ..., "pinned": ...}
Entry(txt, ts, pinned) ==
    [text |-> txt, fold |-> casefold(txt), ts |-> ts, pinned |-> pinned]

\* index of the first entry with this text, 0 when there is none
FirstIndex(h, txt) ==
    IF \E i \in 1..Len(h) : h[i].text = txt
    THEN CHOOSE i \in 1..Len(h) :
            /\ h[i].text = txt
            /\ \A j \in 1..(i - 1) : h[j].text # txt
    ELSE 0

TextsOf(h) == { h[i].text : i \in 1..Len(h) }

(***************************************************************************)
(* History store: ClipboardManager._trim_history, _add_to_history,         *)
(* toggle_pin_selected, remove_selected.                                   *)
(***************************************************************************)
\* a plausible bug: the cap is applied to the whole list
trim_history_whole_list(h) ==
    IF Len(h) > MAX_ITEMS THEN SubSeq(h, 1, MAX_ITEMS) ELSE h

\* a plausible bug: the cap is never applied
trim_history_no_cap(h) == SelectSeq(h, IsPinned) \o SelectSeq(h, IsUnpinned)

\* a plausible bug: the cap keeps the last MAX_ITEMS unpinned entries
trim_history_keep_tail(h) ==
    LET pinned == SelectSeq(h, IsPinned)
        unpinned == SelectSeq(h, IsUnpinned)
    IN  pinned \o (IF Len(unpinned) > MAX_ITEMS
                   THEN SubSeq(unpinned, Len(unpinned) - MAX_ITEMS + 1, Len(unpinned))
                   ELSE unpinned)

trim_history(h) ==
    LET pinned == SelectSeq(h, IsPinned)
        unpinned == SelectSeq(h, IsUnpinned)
    IN  pinned \o (IF Len(unpinned) > MAX_ITEMS
                   THEN SubSeq(unpinned, 1, MAX_ITEMS)
                   ELSE unpinned)

\* a plausible bug: the existing entry is not removed before the insert
add_to_history_keep_old(h, item, now) ==
    LET i == FirstIndex(h, item)
        pinned == IF i = 0 THEN FALSE ELSE h[i].pinned
        entry == Entry(item, now, pinned)
    IN  trim_history(IF pinned THEN InsertAt(h, 0, entry)
                     ELSE InsertAt(h, pinned_count(h), entry))

\* a plausible bug: the pinned flag of the replaced entry is not carried over
add_to_history_unpin(h, item, now) ==
    LET i == FirstIndex(h, item)
        rest == IF i = 0 THEN h ELSE PopAt(h, i)
    IN  trim_history(InsertAt(rest, pinned_count(rest), Entry(item, now, FALSE)))

\* a plausible bug: a text captured again is refreshed where it stands
add_to_history_in_place(h, item, now) ==
    LET i == FirstIndex(h, item)
    IN  IF i = 0
        THEN trim_history(InsertAt(h, pinned_count(h), Entry(item, now, FALSE)))
        ELSE [h EXCEPT ![i] = Entry(item, now, h[i].pinned)]

add_to_history(h, item, now) ==
    LET i == FirstIndex(h, item)
        pinned == IF i = 0 THEN FALSE ELSE h[i].pinned
        rest == IF i = 0 THEN h ELSE PopAt(h, i)
        entry == Entry(item, now, pinned)
    IN  trim_history(IF pinned THEN InsertAt(rest, 0, entry)
                     ELSE InsertAt(rest, pinned_count(rest), entry))

\* a plausible bug: the command pins instead of toggling
toggle_pin_always_pin(h, item) ==
    LET txt == item.text
        rest == SelectSeq(h, LAMBDA e : e.text # txt)
    IN  trim_history(InsertAt(rest, 0, Entry(txt, item.ts, TRUE)))

\* a plausible bug: an entry that becomes unpinned goes to the end of the list
toggle_pin_unpin_last(h, item) ==
    LET txt == item.text
        pinned == ~item.pinned
        rest == SelectSeq(h, LAMBDA e : e.text # txt)
        entry == Entry(txt, item.ts, pinned)
    IN  trim_history(IF pinned THEN InsertAt(rest, 0, entry)
                     ELSE InsertAt(rest, Len(rest), entry))

\* a plausible bug: the command leaves out _trim_history
toggle_pin_no_trim(h, item) ==
    LET txt == item.text
        pinned == ~item.pinned
        rest == SelectSeq(h, LAMBDA e : e.text # txt)
        entry == Entry(txt, item.ts, pinned)
    IN  IF pinned THEN InsertAt(rest, 0, entry)
        ELSE InsertAt(rest, pinned_count(rest), entry)

\* toggle_pin_selected on the selected entry `item`
toggle_pin(h, item) ==
    LET txt == item.text
        pinned == ~item.pinned
        rest == SelectSeq(h, LAMBDA e : e.text # txt)
        entry == Entry(txt, item.ts, pinned)
    IN  trim_history(IF pinned THEN InsertAt(rest, 0, entry)
                     ELSE InsertAt(rest, pinned_count(rest), entry))

\* remove_selected: self.history = [h for h in self.history if h["text"] != txt]
remove_text(h, txt) == SelectSeq(h, LAMBDA e : e.text # txt)

\* str.startswith
IsPrefixOfFold(sub, s) == Len(sub) <= Len(s) /\ SubSeq(s, 1, Len(sub)) = sub

\* Python's `sub in s` for strings
contains(s, sub) ==
    \E i \in 1..(Len(s) - Len(sub) + 1) : SubSeq(s, i, i + Len(sub) - 1) = sub

\* a plausible bug: the query must start the fold key
refresh_list_prefix(h, query) ==
    LET qq == casefold(strip(query))
    IN  SelectSeq(h, LAMBDA e : qq = <<>> \/ IsPrefixOfFold(qq, e.fold))

\* _refresh_list: the filtered_items it builds for the text of the search box
refresh_list(h, query) ==
    LET qq == casefold(strip(query))
    IN  SelectSeq(h, LAMBDA e : qq = <<>> \/ contains(e.fold, qq))


(***************************************************************************)
(* Persistence: the JSON document at HISTORY_PATH.                         *)
(***************************************************************************)
\* A JSON value of the persisted list: a dict (new format), a string (legacy
\* format) or something else (a number).  text.tag "missing": the dict has
\* no "text" key.  ts.tag "missing": no "ts" key; "bad": a value float()
\* rejects (a non-numeric string, null).
DictItem(txt, ts, pinned) ==
    [kind |-> "dict", text |-> [tag |-> "str", val |-> txt],
     ts |-> [tag |-> "num", val |-> ts], pinned |-> pinned]

StrItem(txt) ==
    [kind |-> "str", text |-> [tag |-> "str", val |-> txt],
     ts |-> [tag |-> "missing", val |-> 0], pinned |-> FALSE]

OtherItem ==
    [kind |-> "other", text |-> [tag |-> "missing", val |-> <<>>],
     ts |-> [tag |-> "missing", val |-> 0], pinned |-> FALSE]

PersistedItems ==
    { DictItem(<<"a">>, 0, FALSE),
      DictItem(<<"A">>, 1, TRUE),
      DictItem(<<" ", "a">>, 1, TRUE),
      [DictItem(<<"b", " ">>, 0, FALSE) EXCEPT !.ts = [tag |-> "missing", val |-> 0]],
      [DictItem(<<>>, 0, TRUE) EXCEPT !.text = [tag |-> "missing", val |-> <<>>]],
      [DictItem(<<"b">>, 0, FALSE) EXCEPT !.ts = [tag |-> "bad", val |-> 0]],
      StrItem(<<"a">>),
      OtherItem }

SeqsUpTo(S, n) == UNION { [1..k -> S] : k \in 0..n }

\* The file is absent, is not valid JSON, or holds a JSON list.
PersistedFiles ==
    { [kind |-> "absent", items |-> <<>>], [kind |-> "invalid", items |-> <<>>] }
    \cup { [kind |-> "list", items |-> s] : s \in SeqsUpTo(PersistedItems, MaxFileLen) }

\* a plausible bug: a loaded record gets the time of the load as timestamp
load_dict_fresh_ts(d, now) ==
    IF d.kind # "dict" THEN [act |-> "skip", entry |-> Entry(<<>>, 0, FALSE)]
    ELSE LET txt == strip(IF d.text.tag = "missing" THEN <<>> ELSE d.text.val)
         IN  IF txt = <<>> THEN [act |-> "skip", entry |-> Entry(<<>>, 0, FALSE)]
             ELSE IF d.ts.tag = "bad" THEN [act |-> "raise", entry |-> Entry(<<>>, 0, FALSE)]
             ELSE [act |-> "add", entry |-> Entry(txt, now, d.pinned)]

\* New format, one record d of the list: "skip" (continue), "raise" (float(ts)
\* raises, which leaves the loop and the whole try block) or an entry.
load_dict(d, now) ==
    IF d.kind # "dict" THEN [act |-> "skip", entry |-> Entry(<<>>, 0, FALSE)]
    ELSE LET txt == strip(IF d.text.tag = "missing" THEN <<>> ELSE d.text.val)
         IN  IF txt = <<>> THEN [act |-> "skip", entry |-> Entry(<<>>, 0, FALSE)]
             ELSE IF d.ts.tag = "bad" THEN [act |-> "raise", entry |-> Entry(<<>>, 0, FALSE)]
             ELSE [act |-> "add",
                   entry |-> Entry(txt, IF d.ts.tag = "missing" THEN now ELSE d.ts.val,
                                   d.pinned)]

\* Legacy format with one timestamp for every element
load_legacy_same_ts(t, i, now) ==
    IF t.kind # "str" THEN [act |-> "skip", entry |-> Entry(<<>>, 0, FALSE)]
    ELSE LET txt == strip(t.text.val)
         IN  IF txt = <<>> THEN [act |-> "skip", entry |-> Entry(<<>>, 0, FALSE)]
             ELSE [act |-> "add", entry |-> Entry(txt, now, FALSE)]

\* Legacy format, element t at 0-based index i.
load_legacy(t, i, now) ==
    IF t.kind # "str" THEN [act |-> "skip", entry |-> Entry(<<>>, 0, FALSE)]
    ELSE LET txt == strip(t.text.val)
         IN  IF txt = <<>> THEN [act |-> "skip", entry |-> Entry(<<>>, 0, FALSE)]
             ELSE [act |-> "add", entry |-> Entry(txt, now - i, FALSE)]

\* The loop over data from 1-based position k on; items is what was appended so far.
RECURSIVE load_items(_, _, _, _, _)
load_items(data, k, isNew, now, items) ==
    IF k > Len(data) THEN [ok |-> TRUE, items |-> items]
    ELSE LET r == IF isNew THEN load_dict(data[k], now)
                  ELSE load_legacy(data[k], k - 1, now)
         IN  CASE r.act = "raise" -> [ok |-> FALSE, items |-> items]
               [] r.act = "skip" -> load_items(data, k + 1, isNew, now, items)
               [] OTHER -> load_items(data, k + 1, isNew, now, Append(items, r.entry))

\* De-dupe (keep first occurrence)
RECURSIVE dedupe(_, _)
dedupe(items, uniq) ==
    IF items = <<>> THEN uniq
    ELSE IF Head(items).text \in TextsOf(uniq)
         THEN dedupe(Tail(items), uniq)
         ELSE dedupe(Tail(items), Append(uniq, Head(items)))

\* _load_history: the history after construction (self.history starts as []).
\* uniq, the de-duplicated records, before _trim_history; <<>> when the file is
\* absent or an exception left the try block.
load_uniq(file, now) ==
    IF file.kind # "list" THEN <<>>
    ELSE LET data == file.items
             isNew == data # <<>> /\ data[1].kind = "dict"
             r == load_items(data, 1, isNew, now, <<>>)
         IN  IF r.ok THEN dedupe(r.items, <<>>) ELSE <<>>

load_history(file, now) == trim_history(load_uniq(file, now))

\* a plausible bug: the payload leaves the pinned flag out
save_payload_no_pins(h) ==
    [kind |-> "list",
     items |-> [i \in 1..Len(h) |-> DictItem(h[i].text, h[i].ts, FALSE)]]

\* _auto_save_history: the payload written to HISTORY_PATH
save_payload(h) ==
    [kind |-> "list",
     items |-> [i \in 1..Len(h) |-> DictItem(h[i].text, h[i].ts, h[i].pinned)]]

(***************************************************************************)
(* Hotkeys: the controller's hk_* fields and their two translations.       *)
(***************************************************************************)
MOD_ALT == 1
MOD_CONTROL == 2
MOD_SHIFT == 4
MOD_WIN == 8
MOD_NOREPEAT == 16384

\* The keys a settings file or the hotkey dialog gives: two single characters
\* and a name that neither _key_to_vk nor _key_to_pynput knows.
Keys == { <<"V">>, <<"k">>, <<"P", "a", "u", "s", "e">> }

upper_char(c) ==
    CASE c = "k" -> "K" [] c = "v" -> "V" [] c = "a" -> "A" [] c = "u" -> "U"
      [] c = "s" -> "S" [] c = "e" -> "E" [] OTHER -> c

lower_char(c) ==
    CASE c = "K" -> "k" [] c = "V" -> "v" [] c = "P" -> "p" [] OTHER -> c

\* str.upper()
upper(s) == [i \in 1..Len(s) |-> upper_char(s[i])]

\* ord() of the characters that "A" <= ch <= "Z" or "0" <= ch <= "9" admits
\* among the characters of Keys
ord(ch) == CASE ch = "K" -> 75 [] ch = "V" -> 86

IsAlnumUpper(ch) == ch \in {"K", "V"}

\* None, for a virtual-key code and for a modifier mask
NoneInt == -1

HK(ctrl, alt, shift, win, key) ==
    [ctrl |-> ctrl, alt |-> alt, shift |-> shift, win |-> win, key |-> key]

\* the non-macOS defaults of ClipboardManager.__init__
DefaultHotkey == HK(TRUE, TRUE, FALSE, FALSE, <<"V">>)

\* What the dialog's Apply is pressed with.
HotkeyChoices == { HK(TRUE, TRUE, FALSE, FALSE, k) : k \in Keys }

\* _format_hotkey_display: the parts that "+".join puts together
format_hotkey_display(h) ==
    LET k0 == strip(h.key)
        k == IF Len(k0) = 1 THEN upper(k0) ELSE k0
    IN  (IF h.ctrl THEN <<"Ctrl">> ELSE <<>>)
        \o (IF h.alt THEN <<"Alt">> ELSE <<>>)
        \o (IF h.shift THEN <<"Shift">> ELSE <<>>)
        \o (IF h.win THEN <<"Win">> ELSE <<>>)
        \o (IF k # <<>> THEN k ELSE <<"?">>)

\* _key_to_vk, for Keys (none of which is a function key or a name of the
\* mapping table)
key_to_vk(key) ==
    LET k == strip(key)
    IN  IF Len(k) = 1 /\ IsAlnumUpper(upper_char(k[1])) THEN ord(upper_char(k[1]))
        ELSE NoneInt

\* _hotkey_to_win32: the mask (the flags are distinct bits, "|" adds them)
\* and the virtual-key code
hotkey_to_win32(h) ==
    [mods |-> (IF h.ctrl THEN MOD_CONTROL ELSE 0) + (IF h.alt THEN MOD_ALT ELSE 0)
              + (IF h.shift THEN MOD_SHIFT ELSE 0) + (IF h.win THEN MOD_WIN ELSE 0)
              + MOD_NOREPEAT,
     vk |-> key_to_vk(h.key)]

\* _key_to_pynput, for Keys: None is <<>>
key_to_pynput(key) ==
    LET k == strip(key)
    IN  IF k = <<>> THEN <<>>
        ELSE IF Len(k) = 1 THEN <<lower_char(k[1])>>
        ELSE <<>>

\* _hotkey_to_pynput: the parts that "+".join puts together; None is <<>>
hotkey_to_pynput(h) ==
    LET k == key_to_pynput(h.key)
    IN  IF k = <<>> THEN <<>>
        ELSE (IF h.ctrl THEN <<"<ctrl>">> ELSE <<>>)
             \o (IF h.alt THEN <<"<alt>">> ELSE <<>>)
             \o (IF h.shift THEN <<"<shift>">> ELSE <<>>)
             \o (IF h.win THEN <<"<cmd>">> ELSE <<>>)
             \o k

\* A binding of the Windows listener: _mods, _vk, _display
Binding(mods, vk, display) == [mods |-> mods, vk |-> vk, display |-> display]

\* WindowsHotkeyListener.__init__: Ctrl+Alt+V
DefaultBinding ==
    Binding(MOD_CONTROL + MOD_ALT + MOD_NOREPEAT, ord("V"), <<"Ctrl", "Alt", "V">>)

\* _pending_mods = _pending_vk = _pending_display = None
NonePending == Binding(NoneInt, NoneInt, <<>>)

\* What RegisterHotKey tells combinations apart by.
RegKey(b) == [mods |-> b.mods, vk |-> b.vk]

\* no combination registered for the listener's hotkey id
NoReg == [mods |-> NoneInt, vk |-> NoneInt]

\* The combinations that this program or another one registers.
RegKeys ==
    { RegKey(DefaultBinding) }
    \cup { hotkey_to_win32(h) : h \in { c \in HotkeyChoices : key_to_vk(c.key) # NoneInt } }

\* PynputHotkeyListener._listener (running or None), _combo, _display
PynListener(running, combo, display) ==
    [running |-> running, combo |-> combo, display |-> display]

NoListener == PynListener(FALSE, <<>>, <<>>)

\* the arguments of a set_hotkey call in progress, and who made the call
Request(mods, vk, display, from) ==
    [mods |-> mods, vk |-> vk, display |-> display, from |-> from]

NoRequest == Request(NoneInt, NoneInt, <<>>, "")

(***************************************************************************)
(* State.                                                                  *)
(***************************************************************************)
VARIABLES
    history,            \* ClipboardManager.history
    last_clip,          \* ClipboardManager.last_clip
    monitoring_paused,  \* ClipboardManager.monitoring_paused_var
    persisted,          \* the document at HISTORY_PATH
    clock,              \* what time.time() returns next
    lastOp,             \* the controller command that ran last, and its argument
    search_var,         \* ClipboardManager.search_var, the text of the search box
    search_warn_var,    \* ClipboardManager.search_warn_var
    filtered_items,     \* ClipboardManager.filtered_items, the entries the list shows
    osName,             \* os.name of the platform: "nt" or "posix"
    procPc,             \* per launch: where main() and send_show() stand
    bound,              \* the launches whose socket is bound to the endpoint
    listening,          \* the launches whose socket listens on the endpoint
    connTo,             \* per client: the owner its connection reached (0: none)
    connState,          \* per client: "none"; "queued", "accepted" (the bytes are sent);
                        \* "queued_silent", "accepted_silent" (nothing sent, held
                        \* open); "acked", "dropped_recv", "dropped_send" (closed)
    connData,           \* per client: the bytes it sent on its connection
    showSent,           \* per launch: how many SHOW requests it sent
    srvPc,              \* per launch: SingleInstanceServer._run: "off", "accept", "serve", "exited"
    srvClient,          \* per launch: the connection _run is serving
    ipcStop,            \* per launch: SingleInstanceServer._stop
    q,                  \* per launch: event_q, the queue.Queue of main()
    produced,           \* every event put on the queue of the instance Me, in order
    consumed,           \* every event its controller took with get_nowait, in order
    ctrlPc,             \* Me's control thread: "unbuilt", "setup", "setup_wait",
                        \*   "set_mods", "set_vk", "set_disp", "idle", "draining",
                        \*   "destroyed", "exited"
    window_visible,     \* winfo_viewable() of Me's window
    trayRunning,        \* Me's tray icon runs (pystray, Windows only)
    pynput_available,   \* PYNPUT_AVAILABLE
    hk,                 \* the controller's hk_ctrl, hk_alt, hk_shift, hk_win, hk_key
    hkKind,             \* the class of self.hotkey_listener: "none", "win", "pynput"
    winPc,              \* WindowsHotkeyListener._run: "off", "init", "window", "loop",
                        \*   "rollback", "exited"
    hwnd,               \* WindowsHotkeyListener._hwnd is set
    active,             \* WindowsHotkeyListener._mods, _vk, _display
    pending,            \* WindowsHotkeyListener._pending_mods, _pending_vk, _pending_display
    registered,         \* what RegisterHotKey holds for the listener's hotkey id
    winTmp,             \* wndproc's new_mods, new_vk, new_disp while it handles a request
    msgq,               \* the message queue of the hotkey window
    winStop,            \* WindowsHotkeyListener._stop
    heldElsewhere,      \* the combinations other processes have registered
    pynListener,        \* PynputHotkeyListener._listener, _combo, _display
    hkReq,              \* the set_hotkey call of the control thread that is in progress
    applies,            \* how many times Apply was pressed in the hotkey dialog
    prevReg             \* what was registered when wndproc began the replacement it is in

searchBoxVars == <<search_var, search_warn_var>>

searchVars == <<search_var, search_warn_var, filtered_items>>

\* the controller's fields: the history store and the search box
historyVars ==
    <<history, last_clip, monitoring_paused, persisted, clock, lastOp, searchVars>>

arbiterVars ==
    <<procPc, bound, listening, connTo, connState, connData, showSent, srvPc,
      srvClient, ipcStop>>

busVars == <<q, produced, consumed, ctrlPc, window_visible, trayRunning>>

hotkeyVars ==
    <<pynput_available, hk, hkKind, winPc, hwnd, active, pending, registered, winTmp,
      msgq, winStop, heldElsewhere, pynListener, hkReq, applies, prevReg>>

vars == <<historyVars, osName, arbiterVars, busVars, hotkeyVars>>

Procs == 1..NumProcs

\* A program that is not a launch of this one and connects to the endpoint.
Prober == NumProcs + 1

\* Who can connect to the endpoint.
Clients == Procs \cup {Prober}

\* The instance whose controller, history and event sources the model follows.
Me == CHOOSE p \in Procs : \A r \in Procs : p <= r

\* evicted: the texts, other than the command's own, that the command dropped;
\* again: the command is a toggle_pin that directly follows a toggle_pin of the
\* same text.
Op(name, txt, before, after) ==
    [op |-> name, text |-> txt,
     evicted |-> (TextsOf(before) \ {txt}) \ TextsOf(after),
     again |-> FALSE]

NextOp(name, txt, before, after) ==
    [Op(name, txt, before, after) EXCEPT
        !.again = name = "toggle_pin" /\ lastOp.op = name /\ lastOp.text = txt]

\* What clipboard_get() can give: a TclError / non-string (None), or a string.
ClipboardReads ==
    { [readable |-> FALSE, data |-> <<>>] }
    \cup { [readable |-> TRUE, data |-> r] : r \in RawTexts }

\* paused: "monitoring_paused" of the settings file (False when there is none)
InitHistory(file, paused) ==
    /\ persisted = file
    /\ history = load_history(file, StartTime)
    /\ last_clip = NoClip
    /\ monitoring_paused = paused
    /\ clock = StartTime + 1
    /\ lastOp = Op("load", <<>>, load_uniq(file, StartTime), history)
    /\ search_var = <<>>
    /\ search_warn_var = ""
    /\ filtered_items = refresh_list(history, search_var)

(***************************************************************************)
(* Controller commands on the history.                                     *)
(***************************************************************************)
\* _poll_clipboard without the branch of lines 953-955: a paused tick forgets
\* what it saw
PollClipboard_paused_blind(read) ==
    LET normalized == strip(read.data)
    IN  /\ ctrlPc = "idle"
        /\ IF read.readable /\ normalized # <<>> /\ ~monitoring_paused
              /\ normalized # last_clip
           THEN /\ clock < StartTime + 1 + MaxCaptures
                /\ last_clip' = normalized
                /\ history' = add_to_history(history, normalized, clock)
                /\ persisted' = save_payload(history')
                /\ clock' = clock + 1
                /\ lastOp' = NextOp("capture", normalized, history, history')
                /\ UNCHANGED monitoring_paused
           ELSE /\ lastOp' = NextOp("poll", IF read.readable THEN normalized ELSE <<>>,
                                    history, history)
                /\ UNCHANGED <<history, last_clip, persisted, clock, monitoring_paused>>

\* _poll_clipboard, one tick
\* a plausible bug: the clipboard text is captured as read, without strip()
PollClipboard_raw(read) ==
    LET normalized == read.data
    IN  /\ ctrlPc = "idle"
        /\ IF read.readable /\ normalized # <<>>
           THEN IF monitoring_paused
                THEN /\ last_clip' = normalized
                     /\ lastOp' = NextOp("poll", normalized, history, history)
                     /\ UNCHANGED <<history, persisted, clock, monitoring_paused>>
                ELSE IF normalized # last_clip
                THEN /\ clock < StartTime + 1 + MaxCaptures
                     /\ last_clip' = normalized
                     /\ history' = add_to_history(history, normalized, clock)
                     /\ persisted' = save_payload(history')
                     /\ clock' = clock + 1
                     /\ lastOp' = NextOp("capture", normalized, history, history')
                     /\ UNCHANGED monitoring_paused
                ELSE /\ lastOp' = NextOp("poll", normalized, history, history)
                     /\ UNCHANGED <<history, last_clip, persisted, clock, monitoring_paused>>
           ELSE /\ lastOp' = NextOp("poll", <<>>, history, history)
                /\ UNCHANGED <<history, last_clip, persisted, clock, monitoring_paused>>

PollClipboard(read) ==
    LET normalized == strip(read.data)
    IN  /\ ctrlPc = "idle"
        /\ IF read.readable /\ normalized # <<>>
           THEN IF monitoring_paused
                THEN /\ last_clip' = normalized
                     /\ lastOp' = NextOp("poll", normalized, history, history)
                     /\ UNCHANGED <<history, persisted, clock, monitoring_paused>>
                ELSE IF normalized # last_clip
                THEN /\ clock < StartTime + 1 + MaxCaptures
                     /\ last_clip' = normalized
                     /\ history' = add_to_history(history, normalized, clock)
                     /\ persisted' = save_payload(history')
                     /\ clock' = clock + 1
                     /\ lastOp' = NextOp("capture", normalized, history, history')
                     /\ UNCHANGED monitoring_paused
                ELSE /\ lastOp' = NextOp("poll", normalized, history, history)
                     /\ UNCHANGED <<history, last_clip, persisted, clock, monitoring_paused>>
           ELSE /\ lastOp' = NextOp("poll", <<>>, history, history)
                /\ UNCHANGED <<history, last_clip, persisted, clock, monitoring_paused>>

\* toggle_pin_selected with the i-th entry selected
TogglePinSelected(i) ==
    /\ ctrlPc = "idle"
    /\ i \in 1..Len(history)
    /\ history' = toggle_pin(history, history[i])
    /\ persisted' = save_payload(history')
    /\ lastOp' = NextOp("toggle_pin", history[i].text, history, history')
    /\ UNCHANGED <<last_clip, monitoring_paused, clock>>

\* a plausible bug: remove_selected cuts the list at the selected entry
RemoveSelected_cut(i) ==
    /\ ctrlPc = "idle"
    /\ i \in 0..Len(history)
    /\ IF i = 0
       THEN /\ lastOp' = NextOp("remove_none", <<>>, history, history)
            /\ UNCHANGED <<history, persisted>>
       ELSE /\ history' = SubSeq(history, 1, i - 1)
            /\ persisted' = save_payload(history')
            /\ lastOp' = NextOp("remove", history[i].text, history, history)
    /\ UNCHANGED <<last_clip, monitoring_paused, clock>>

\* remove_selected with the i-th entry selected; i = 0: nothing is selected
\* (_selected_history_item returns None) and the command returns at once
RemoveSelected(i) ==
    /\ ctrlPc = "idle"
    /\ i \in 0..Len(history)
    /\ IF i = 0
       THEN /\ lastOp' = NextOp("remove_none", <<>>, history, history)
            /\ UNCHANGED <<history, persisted>>
       ELSE /\ history' = remove_text(history, history[i].text)
            /\ persisted' = save_payload(history')
            /\ lastOp' = NextOp("remove", history[i].text, history, history)
    /\ UNCHANGED <<last_clip, monitoring_paused, clock>>

\* a plausible bug: clear_all spares the pinned entries
ClearAll_spares_pinned(confirm) ==
    /\ ctrlPc = "idle"
    /\ IF history = <<>>
       THEN /\ lastOp' = NextOp("clear_empty", <<>>, history, history)
            /\ UNCHANGED <<history, persisted>>
       ELSE IF confirm
       THEN /\ history' = SelectSeq(history, IsPinned)
            /\ persisted' = save_payload(history')
            /\ lastOp' = NextOp("clear", <<>>, history, history)
       ELSE /\ lastOp' = NextOp("clear_declined", <<>>, history, history)
            /\ UNCHANGED <<history, persisted>>
    /\ UNCHANGED <<last_clip, monitoring_paused, clock>>

\* clear_all; confirm is the answer to the askyesno dialog, which is not
\* asked when the history is empty
ClearAll(confirm) ==
    /\ ctrlPc = "idle"
    /\ IF history = <<>>
       THEN /\ lastOp' = NextOp("clear_empty", <<>>, history, history)
            /\ UNCHANGED <<history, persisted>>
       ELSE IF confirm
       THEN /\ history' = <<>>
            /\ persisted' = save_payload(history')
            /\ lastOp' = NextOp("clear", <<>>, history, history)
       ELSE /\ lastOp' = NextOp("clear_declined", <<>>, history, history)
            /\ UNCHANGED <<history, persisted>>
    /\ UNCHANGED <<last_clip, monitoring_paused, clock>>

\* toggle_monitoring: what it does to the controller's state
toggle_monitoring ==
    /\ monitoring_paused' = ~monitoring_paused
    /\ lastOp' = NextOp("toggle_monitoring", <<>>, history, history)
    /\ UNCHANGED <<history, last_clip, persisted, clock>>

\* toggle_monitoring from the context menu (the Settings checkbutton flips the
\* variable itself and calls _monitoring_menu_changed)
ToggleMonitoring ==
    /\ ctrlPc = "idle"
    /\ toggle_monitoring

notHistoryVars == <<searchBoxVars, osName, arbiterVars, busVars, hotkeyVars>>

\* the commands that end with _refresh_list() (lines 1000, 1059, 1085, 1106)
RefreshingCommands == {"capture", "toggle_pin", "remove", "clear"}

\* what the command that has just run has done to the list view
refresh_after ==
    filtered_items' = IF lastOp'.op \in RefreshingCommands
                      THEN refresh_list(history', search_var)
                      ELSE filtered_items

Poll ==
    /\ \E read \in ClipboardReads : PollClipboard(read)
    /\ refresh_after
    /\ UNCHANGED notHistoryVars
TogglePin ==
    /\ \E i \in 1..Len(history) : TogglePinSelected(i)
    /\ refresh_after
    /\ UNCHANGED notHistoryVars
Remove ==
    /\ \E i \in 0..Len(history) : RemoveSelected(i)
    /\ refresh_after
    /\ UNCHANGED notHistoryVars
Clear ==
    /\ \E confirm \in BOOLEAN : ClearAll(confirm)
    /\ refresh_after
    /\ UNCHANGED notHistoryVars
Monitoring == ToggleMonitoring /\ refresh_after /\ UNCHANGED notHistoryVars


(***************************************************************************)
(* Single-instance arbiter: SingleInstanceServer and main().               *)
(***************************************************************************)
\* b"SHOW\n", what send_show writes
SHOW_REQUEST == <<"S", "H", "O", "W", "\n">>

IsByteSpace(c) == c \in {" ", "\n"}

RECURSIVE bytes_strip(_)
bytes_strip(s) ==
    IF s # <<>> /\ IsByteSpace(Head(s)) THEN bytes_strip(Tail(s))
    ELSE IF s # <<>> /\ IsByteSpace(s[Len(s)]) THEN bytes_strip(SubSeq(s, 1, Len(s) - 1))
    ELSE s

upper_byte(c) ==
    CASE c = "s" -> "S" [] c = "h" -> "H" [] c = "o" -> "O" [] c = "w" -> "W" [] OTHER -> c

\* data.strip().upper().startswith(b"SHOW")
is_show(data) ==
    LET d == bytes_strip(data)
    IN  /\ Len(d) >= 4
        /\ [i \in 1..4 |-> upper_byte(d[i])] = <<"S", "H", "O", "W">>

Event(kind, payload) == [kind |-> kind, payload |-> payload]

\* The payload of an INFO or ERROR event: which message, and the display
\* strings it is formatted with.
Payload(msg, a, b) == [msg |-> msg, a |-> a, b |-> b]

\* the payload None
NoPayload == Payload("", <<>>, <<>>)

\* The sources stop when the run has put MaxEvents events on Me's queue.
CanPut(p) == p # Me \/ Len(produced) < MaxEvents

\* self.q.put(ev) in the instance p
Put(p, ev) ==
    /\ q' = [q EXCEPT ![p] = Append(@, ev)]
    /\ produced' = IF p = Me THEN Append(produced, ev) ELSE produced

\* What s.bind() can do when this socket and every other one set SO_REUSEADDR:
\* TRUE (bound) or FALSE (OSError).  Windows lets a second socket bind an
\* endpoint in use; a POSIX stack refuses while another socket listens on it,
\* and while another socket is only bound it refuses (BSD) or not (Linux).
bind_outcomes(os, bnd, lst) ==
    IF os = "nt" THEN {TRUE}
    ELSE IF lst # {} THEN {FALSE}
    ELSE IF bnd # {} THEN {TRUE, FALSE}
    ELSE {TRUE}

\* What s.listen(5) does: Windows accepts a second listener under SO_REUSEADDR,
\* a POSIX stack raises EADDRINUSE.
listen_ok(os, lst) == os = "nt" \/ lst = {}

\* start(): socket(), setsockopt(SO_REUSEADDR), bind()
Bind(p) ==
    /\ procPc[p] = "main"
    /\ \E ok \in bind_outcomes(osName, bound \ {p}, listening \ {p}) :
          IF ok
          THEN /\ bound' = bound \cup {p}
               /\ procPc' = [procPc EXCEPT ![p] = "bound"]
          ELSE /\ procPc' = [procPc EXCEPT ![p] = "challenger"]
               /\ UNCHANGED bound
    /\ UNCHANGED <<listening, connTo, connState, connData, showSent, srvPc, srvClient,
                   ipcStop, historyVars, osName, busVars, hotkeyVars>>

\* start(): listen(), settimeout(), the accept thread starts; or OSError, and
\* the socket goes away with start()'s frame
Listen(p) ==
    /\ procPc[p] = "bound"
    /\ IF listen_ok(osName, listening \ {p})
       THEN /\ listening' = listening \cup {p}
            /\ srvPc' = [srvPc EXCEPT ![p] = "accept"]
            /\ procPc' = [procPc EXCEPT ![p] = "started"]
            /\ UNCHANGED bound
       ELSE /\ bound' = bound \ {p}
            /\ procPc' = [procPc EXCEPT ![p] = "challenger"]
            /\ UNCHANGED <<listening, srvPc>>
    /\ UNCHANGED <<connTo, connState, connData, showSent, srvClient, ipcStop,
                   historyVars, osName, busVars, hotkeyVars>>

\* main(): app = ClipboardManager(event_q, ipc, start_hidden), up to the call
\* of _setup_hotkey: the window is withdrawn or shown, the history is loaded
Construct(p) ==
    /\ procPc[p] = "started"
    /\ procPc' = [procPc EXCEPT ![p] = "owner"]
    /\ IF p = Me
       THEN /\ \E start_hidden \in BOOLEAN : window_visible' = ~start_hidden
            /\ history' = load_history(persisted, clock)
            /\ lastOp' = Op("load", <<>>, load_uniq(persisted, clock), history')
            /\ filtered_items' = refresh_list(history', search_var)
            /\ clock' = clock + 1
            /\ ctrlPc' = "setup"
       ELSE UNCHANGED <<window_visible, history, lastOp, filtered_items, clock, ctrlPc>>
    /\ UNCHANGED <<bound, listening, connTo, connState, connData, showSent, srvPc,
                   srvClient, ipcStop, last_clip, monitoring_paused, persisted,
                   searchBoxVars, osName,
                   q, produced, consumed, trayRunning, hotkeyVars>>

\* send_show(): create_connection() and sendall(b"SHOW\n"); with no listener the
\* connection is refused and the exception ends send_show
Connect(p) ==
    /\ procPc[p] = "challenger"
    /\ IF listening = {}
       THEN /\ procPc' = [procPc EXCEPT ![p] = "done"]
            /\ UNCHANGED <<connTo, connState, connData, showSent>>
       ELSE \E o \in listening :
               /\ connTo' = [connTo EXCEPT ![p] = o]
               /\ connState' = [connState EXCEPT ![p] = "queued"]
               /\ connData' = [connData EXCEPT ![p] = SHOW_REQUEST]
               /\ showSent' = [showSent EXCEPT ![p] = @ + 1]
               /\ procPc' = [procPc EXCEPT ![p] = "await_reply"]
    /\ UNCHANGED <<bound, listening, srvPc, srvClient, ipcStop, historyVars, osName,
                   busVars, hotkeyVars>>

\* send_show(): recv(16) returns or times out after 0.25 s; main() returns
RecvReply(p) ==
    /\ procPc[p] = "await_reply"
    /\ procPc' = [procPc EXCEPT ![p] = "done"]
    /\ UNCHANGED <<bound, listening, connTo, connState, connData, showSent, srvPc,
                   srvClient, ipcStop, historyVars, osName, busVars, hotkeyVars>>

\* _run(): accept() returns the connection of the client c
AcceptFrom(o, c) ==
    /\ srvPc[o] = "accept"
    /\ ~ipcStop[o]
    /\ connTo[c] = o
    /\ connState[c] \in {"queued", "queued_silent"}
    /\ connState' = [connState EXCEPT ![c] = IF @ = "queued" THEN "accepted"
                                             ELSE "accepted_silent"]
    /\ srvClient' = [srvClient EXCEPT ![o] = c]
    /\ srvPc' = [srvPc EXCEPT ![o] = "serve"]
    /\ UNCHANGED <<procPc, bound, listening, connTo, connData, showSent, ipcStop,
                   historyVars, osName, busVars, hotkeyVars>>

\* _run(): accept() returns a connection (a timeout only repeats the loop)
Accept(o) == \E c \in Clients : AcceptFrom(o, c)

\* a plausible bug: any payload that is not empty asks for SHOW
Serve_any_payload(o) ==
    /\ srvPc[o] = "serve"
    /\ connState[srvClient[o]] = "accepted"
    /\ IF connData[srvClient[o]] # <<>>
       THEN /\ CanPut(o)
            /\ Put(o, Event("SHOW", NoPayload))
       ELSE UNCHANGED <<q, produced>>
    /\ connState' = [connState EXCEPT ![srvClient[o]] = "acked"]
    /\ srvPc' = [srvPc EXCEPT ![o] = "accept"]
    /\ UNCHANGED <<procPc, bound, listening, connTo, connData, showSent, srvClient,
                   ipcStop, historyVars, osName, consumed, ctrlPc, window_visible,
                   trayRunning, hotkeyVars>>

\* _run(): recv(), the SHOW test, q.put, sendall(b"OK\n"), close().  The
\* accepted socket is in blocking mode (settimeout is called on the listening
\* socket only), so recv() returns when the peer has sent or has closed.
Serve(o) ==
    /\ srvPc[o] = "serve"
    /\ connState[srvClient[o]] = "accepted"
    /\ IF is_show(connData[srvClient[o]])
       THEN /\ CanPut(o)
            /\ Put(o, Event("SHOW", NoPayload))
       ELSE UNCHANGED <<q, produced>>
    /\ connState' = [connState EXCEPT ![srvClient[o]] = "acked"]
    /\ srvPc' = [srvPc EXCEPT ![o] = "accept"]
    /\ UNCHANGED <<procPc, bound, listening, connTo, connData, showSent, srvClient,
                   ipcStop, historyVars, osName, consumed, ctrlPc, window_visible,
                   trayRunning, hotkeyVars>>

\* The stage of _run()'s inner try at which the connection fails.
FaultStages == {"recv", "send"}

\* _run(): recv() or sendall() raises (the peer has reset the connection); the
\* exception is swallowed and the connection closed.
ServeFault(o, stage) ==
    /\ srvPc[o] = "serve"
    /\ IF stage = "send"
       THEN /\ connState[srvClient[o]] = "accepted"
            /\ IF is_show(connData[srvClient[o]])
               THEN /\ CanPut(o)
                    /\ Put(o, Event("SHOW", NoPayload))
               ELSE UNCHANGED <<q, produced>>
            /\ connState' = [connState EXCEPT ![srvClient[o]] = "dropped_send"]
       ELSE /\ connState' = [connState EXCEPT ![srvClient[o]] = "dropped_recv"]
            /\ UNCHANGED <<q, produced>>
    /\ srvPc' = [srvPc EXCEPT ![o] = "accept"]
    /\ UNCHANGED <<procPc, bound, listening, connTo, connData, showSent, srvClient,
                   ipcStop, historyVars, osName, consumed, ctrlPc, window_visible,
                   trayRunning, hotkeyVars>>

\* _run(): after stop() the while test fails, or accept() raises on the
\* closed socket and the loop breaks; the thread ends.
AcceptExit(o) ==
    /\ srvPc[o] = "accept"
    /\ ipcStop[o]
    /\ srvPc' = [srvPc EXCEPT ![o] = "exited"]
    /\ UNCHANGED <<procPc, bound, listening, connTo, connState, connData, showSent,
                   srvClient, ipcStop, historyVars, osName, busVars, hotkeyVars>>

\* SingleInstanceServer.stop(): the flag is set and the socket closed
ipc_stop(p) ==
    /\ ipcStop' = [ipcStop EXCEPT ![p] = TRUE]
    /\ bound' = bound \ {p}
    /\ listening' = listening \ {p}

InitArbiter(os, pcs) ==
    /\ osName = os
    /\ procPc = pcs
    /\ bound = { p \in Procs : pcs[p] \in {"started", "owner"} }
    /\ listening = { p \in Procs : pcs[p] \in {"started", "owner"} }
    /\ connTo = [c \in Clients |-> 0]
    /\ connState = [c \in Clients |-> "none"]
    /\ connData = [c \in Clients |-> <<>>]
    /\ showSent = [p \in Procs |-> 0]
    /\ srvPc = [p \in Procs |-> IF pcs[p] \in {"started", "owner"} THEN "accept" ELSE "off"]
    /\ srvClient = [p \in Procs |-> 0]
    /\ ipcStop = [p \in Procs |-> FALSE]

(***************************************************************************)
(* Global hotkey: WindowsHotkeyListener, PynputHotkeyListener and the      *)
(* controller's _setup_hotkey and hotkey dialog.                           *)
(***************************************************************************)
\* What neither capture source touches.
sourceFrame ==
    <<historyVars, osName, arbiterVars, consumed, ctrlPc, window_visible, trayRunning,
      applies>>

\* What only the replacement of wndproc touches.
replaceFrame == <<sourceFrame, prevReg>>

\* register_hotkey(hwnd, mods, vk): RegisterHotKey refuses a combination that
\* another program holds
register_hotkey(key) == key \notin heldElsewhere

\* the while condition of _run: with _stop set the thread leaves the loop
\* instead of calling GetMessageW again
BackToLoop == IF winStop THEN "stopping" ELSE "loop"

\* _run: RegisterClassW, CreateWindowExW, self._hwnd = hwnd
WinCreateWindow ==
    /\ winPc = "init"
    /\ hwnd' = TRUE
    /\ winPc' = "window"
    /\ UNCHANGED <<pynput_available, hk, hkKind, active, pending, registered, winTmp,
                   msgq, winStop, heldElsewhere, pynListener, hkReq, q, produced,
                   replaceFrame>>

\* _run: the first register_hotkey, its event, _ready.set()
WinRegisterInitial ==
    /\ winPc = "window"
    /\ CanPut(Me)
    /\ IF register_hotkey(RegKey(active))
       THEN /\ registered' = RegKey(active)
            /\ Put(Me, Event("INFO", Payload("Hotkey ready", active.display, <<>>)))
       ELSE /\ Put(Me, Event("ERROR", Payload("Failed to register hotkey", active.display, <<>>)))
            /\ UNCHANGED registered
    /\ winPc' = BackToLoop
    /\ UNCHANGED <<pynput_available, hk, hkKind, hwnd, active, pending, winTmp, msgq,
                   winStop, heldElsewhere, pynListener, hkReq, replaceFrame>>

\* wndproc, WM_HOTKEY
WinHotkeyMsg ==
    /\ winPc = "loop"
    /\ msgq # <<>>
    /\ Head(msgq) = "WM_HOTKEY"
    /\ CanPut(Me)
    /\ Put(Me, Event("HOTKEY", NoPayload))
    /\ msgq' = Tail(msgq)
    /\ winPc' = BackToLoop
    /\ UNCHANGED <<pynput_available, hk, hkKind, hwnd, active, pending, registered,
                   winTmp, winStop, heldElsewhere, pynListener, hkReq, replaceFrame>>

\* wndproc, WM_APP_SET_HOTKEY: new_mods = self._pending_mods
WinSetMsg ==
    /\ winPc = "loop"
    /\ msgq # <<>>
    /\ Head(msgq) = "WM_APP_SET_HOTKEY"
    /\ msgq' = Tail(msgq)
    /\ winTmp' = Binding(pending.mods, NoneInt, <<>>)
    /\ winPc' = "read_vk"
    /\ UNCHANGED <<pynput_available, hk, hkKind, hwnd, active, pending, registered,
                   winStop, heldElsewhere, pynListener, hkReq, q, produced, replaceFrame>>

\* wndproc: new_vk = self._pending_vk
WinReadVk ==
    /\ winPc = "read_vk"
    /\ winTmp' = [winTmp EXCEPT !.vk = pending.vk]
    /\ winPc' = "read_disp"
    /\ UNCHANGED <<pynput_available, hk, hkKind, hwnd, active, pending, registered,
                   msgq, winStop, heldElsewhere, pynListener, hkReq, q, produced,
                   replaceFrame>>

\* wndproc: new_disp = self._pending_display, the test for None, and
\* unregister_hotkey(hwnd)
WinReadDisplay ==
    /\ winPc = "read_disp"
    /\ IF winTmp.mods = NoneInt \/ winTmp.vk = NoneInt \/ pending.display = <<>>
       THEN /\ winTmp' = NonePending
            /\ winPc' = BackToLoop
            /\ UNCHANGED <<registered, prevReg>>
       ELSE /\ winTmp' = [winTmp EXCEPT !.display = pending.display]
            /\ prevReg' = registered
            /\ registered' = NoReg
            /\ winPc' = "replace"
    /\ UNCHANGED <<pynput_available, hk, hkKind, hwnd, active, pending, msgq, winStop,
                   heldElsewhere, pynListener, hkReq, q, produced, sourceFrame>>

\* wndproc: register_hotkey(hwnd, new_mods, new_vk) and its success branch
WinRegisterNew ==
    /\ winPc = "replace"
    /\ IF register_hotkey(RegKey(winTmp))
       THEN /\ CanPut(Me)
            /\ registered' = RegKey(winTmp)
            /\ active' = winTmp
            /\ Put(Me, Event("INFO", Payload("Hotkey set to", winTmp.display, <<>>)))
            /\ winTmp' = NonePending
            /\ prevReg' = NoReg
            /\ winPc' = BackToLoop
       ELSE /\ winPc' = "rollback"
            /\ UNCHANGED <<registered, active, winTmp, prevReg, q, produced>>
    /\ UNCHANGED <<pynput_available, hk, hkKind, hwnd, pending, msgq, winStop,
                   heldElsewhere, pynListener, hkReq, sourceFrame>>

\* a plausible bug: the rollback asks for the requested combination again
rollback_key_requested(act, new) == RegKey(new)

\* wndproc, rollback: the combination of self._mods and self._vk
rollback_key(act, new) == RegKey(act)

\* a plausible bug: a failed rollback is reported like a successful one
WinRollback_same_error ==
    /\ winPc = "rollback"
    /\ CanPut(Me)
    /\ IF register_hotkey(rollback_key(active, winTmp))
       THEN registered' = rollback_key(active, winTmp)
       ELSE UNCHANGED registered
    /\ Put(Me, Event("ERROR", Payload("unavailable, kept", winTmp.display,
                                      active.display)))
    /\ winTmp' = NonePending
    /\ prevReg' = NoReg
    /\ winPc' = BackToLoop
    /\ UNCHANGED <<pynput_available, hk, hkKind, hwnd, active, pending, msgq,
                   winStop, heldElsewhere, pynListener, hkReq, sourceFrame>>

\* wndproc: the rollback register_hotkey(hwnd, self._mods, self._vk) and the
\* event of either outcome
WinRollback ==
    /\ winPc = "rollback"
    /\ CanPut(Me)
    /\ IF register_hotkey(rollback_key(active, winTmp))
       THEN /\ registered' = rollback_key(active, winTmp)
            /\ Put(Me, Event("ERROR", Payload("unavailable, kept", winTmp.display,
                                              active.display)))
       ELSE /\ Put(Me, Event("ERROR", Payload("rollback failed", <<>>, <<>>)))
            /\ UNCHANGED registered
    /\ winTmp' = NonePending
    /\ prevReg' = NoReg
    /\ winPc' = BackToLoop
    /\ UNCHANGED <<pynput_available, hk, hkKind, hwnd, active, pending, msgq,
                   winStop, heldElsewhere, pynListener, hkReq, sourceFrame>>

\* wndproc, WM_CLOSE: DestroyWindow sends WM_DESTROY, which unregisters and
\* posts the quit message that ends the loop
WinCloseMsg ==
    /\ winPc = "loop"
    /\ msgq # <<>>
    /\ Head(msgq) = "WM_CLOSE"
    /\ msgq' = <<>>
    /\ registered' = NoReg
    /\ winPc' = "exited"
    /\ UNCHANGED <<pynput_available, hk, hkKind, hwnd, active, pending, winTmp, winStop,
                   heldElsewhere, pynListener, hkReq, q, produced, replaceFrame>>

\* _run: the while condition finds _stop set; the thread ends, and with it
\* its window and the registration
WinStopped ==
    /\ winPc \in {"loop", "stopping"}
    /\ winStop
    /\ msgq' = <<>>
    /\ registered' = NoReg
    /\ winPc' = "exited"
    /\ UNCHANGED <<pynput_available, hk, hkKind, hwnd, active, pending, winTmp, winStop,
                   heldElsewhere, pynListener, hkReq, q, produced, replaceFrame>>

\* The user presses the combination that is registered for this program:
\* Windows posts WM_HOTKEY to the hotkey window.
KeyPress ==
    /\ registered # NoReg
    /\ Len(msgq) < MaxMsgs
    /\ msgq' = Append(msgq, "WM_HOTKEY")
    /\ UNCHANGED <<pynput_available, hk, hkKind, winPc, hwnd, active, pending,
                   registered, winTmp, winStop, heldElsewhere, pynListener, hkReq, q,
                   produced, replaceFrame>>

\* Another program registers a combination that nobody holds.
OtherGrab(key) ==
    /\ osName = "nt"
    /\ key # registered
    /\ key \notin heldElsewhere
    /\ heldElsewhere' = heldElsewhere \cup {key}
    /\ UNCHANGED <<pynput_available, hk, hkKind, winPc, hwnd, active, pending,
                   registered, winTmp, msgq, winStop, pynListener, hkReq, q, produced,
                   replaceFrame>>

\* Another program unregisters its combination.
OtherRelease(key) ==
    /\ key \in heldElsewhere
    /\ heldElsewhere' = heldElsewhere \ {key}
    /\ UNCHANGED <<pynput_available, hk, hkKind, winPc, hwnd, active, pending,
                   registered, winTmp, msgq, winStop, pynListener, hkReq, q, produced,
                   replaceFrame>>

\* The user presses the combination of the running pynput listener: its
\* thread calls the lambda.
PynKeyPress ==
    /\ pynListener.running
    /\ CanPut(Me)
    /\ Put(Me, Event("HOTKEY", NoPayload))
    /\ UNCHANGED <<hotkeyVars, sourceFrame>>

\* PynputHotkeyListener.set_hotkey; GlobalHotKeys(...) and Thread.start()
\* succeed or raise
pyn_set_hotkey(combo, display) ==
    /\ CanPut(Me)
    /\ IF ~pynput_available
       THEN /\ Put(Me, Event("ERROR", Payload("pynput is not installed", <<>>, <<>>)))
            /\ UNCHANGED pynListener
       ELSE \E started \in BOOLEAN :
               IF started
               THEN /\ pynListener' = PynListener(TRUE, combo, display)
                    /\ Put(Me, Event("INFO", Payload("Hotkey ready", display, <<>>)))
               ELSE /\ pynListener' = PynListener(FALSE, combo, display)
                    /\ Put(Me, Event("ERROR", Payload("Failed to register hotkey",
                                                      display, <<>>)))

\* _setup_hotkey where os.name is not "nt", the controller's hotkey being h
setup_pynput(h) ==
    LET combo == hotkey_to_pynput(h)
    IN  IF combo = <<>>
        THEN /\ hkKind' = "none"
             /\ pynListener' = NoListener
             /\ IF ~pynput_available
                THEN /\ CanPut(Me)
                     /\ Put(Me, Event("INFO", Payload("Hotkey requires pynput", <<>>, <<>>)))
                ELSE UNCHANGED <<q, produced>>
        ELSE /\ hkKind' = "pynput"
             /\ IF ~pynput_available
                THEN /\ CanPut(Me)
                     /\ Put(Me, Event("INFO", Payload("Global hotkey requires pynput",
                                                      <<>>, <<>>)))
                     /\ pynListener' = NoListener
                ELSE pyn_set_hotkey(combo, format_hotkey_display(h))

\* __init__ after _setup_hotkey on Windows: self.tray.start() runs the icon
\* when pystray is there and reports when it is not
tray_start ==
    \E pystray \in BOOLEAN :
       IF pystray
       THEN /\ trayRunning' = TRUE
            /\ UNCHANGED <<q, produced>>
       ELSE /\ CanPut(Me)
            /\ Put(Me, Event("INFO", Payload("Tray icon requires pystray", <<>>, <<>>)))
            /\ UNCHANGED trayRunning

\* What no step of the control thread on the hotkey touches.
ctrlFrame == <<historyVars, osName, arbiterVars, consumed, window_visible>>


\* _setup_hotkey.  On Windows: the listener is made and start() starts its
\* thread and waits.  Elsewhere: the pynput listener, and __init__ goes on
\* (TrayManager.start does nothing there).
SetupHotkey ==
    /\ ctrlPc = "setup"
    /\ IF osName = "nt"
       THEN /\ hkKind' = "win"
            /\ winPc' = "init"
            /\ ctrlPc' = "setup_wait"
            /\ UNCHANGED <<pynListener, q, produced>>
       ELSE /\ setup_pynput(hk)
            /\ ctrlPc' = "idle"
            /\ UNCHANGED winPc
    /\ UNCHANGED <<pynput_available, hk, hwnd, active, pending, registered, winTmp,
                   msgq, winStop, heldElsewhere, hkReq, trayRunning, applies, prevReg, ctrlFrame>>

\* start(): _ready.wait(timeout=2.0) returns, the thread being ready or not;
\* _setup_hotkey calls set_hotkey unless the key has no virtual-key code
SetupReady ==
    /\ ctrlPc = "setup_wait"
    /\ LET w == hotkey_to_win32(hk)
       IN  IF w.vk # NoneInt
           THEN /\ hkReq' = Request(w.mods, w.vk, format_hotkey_display(hk), "init")
                /\ ctrlPc' = "set_mods"
                /\ UNCHANGED <<trayRunning, q, produced>>
           ELSE /\ tray_start
                /\ ctrlPc' = "idle"
                /\ UNCHANGED hkReq
    /\ UNCHANGED <<pynput_available, hk, hkKind, winPc, hwnd, active, pending,
                   registered, winTmp, msgq, winStop, heldElsewhere, pynListener,
                   applies, prevReg, ctrlFrame>>

\* set_hotkey: self._pending_mods = mods
SetMods ==
    /\ ctrlPc = "set_mods"
    /\ pending' = [pending EXCEPT !.mods = hkReq.mods]
    /\ ctrlPc' = "set_vk"
    /\ UNCHANGED <<pynput_available, hk, hkKind, winPc, hwnd, active, registered,
                   winTmp, msgq, winStop, heldElsewhere, pynListener, hkReq, q,
                   produced, trayRunning, applies, prevReg, ctrlFrame>>

\* set_hotkey: self._pending_vk = vk
SetVk ==
    /\ ctrlPc = "set_vk"
    /\ pending' = [pending EXCEPT !.vk = hkReq.vk]
    /\ ctrlPc' = "set_disp"
    /\ UNCHANGED <<pynput_available, hk, hkKind, winPc, hwnd, active, registered,
                   winTmp, msgq, winStop, heldElsewhere, pynListener, hkReq, q,
                   produced, trayRunning, applies, prevReg, ctrlFrame>>

\* set_hotkey: self._pending_display = display, and PostMessageW if the
\* window is there; then the caller goes on (__init__ with the tray, the
\* dialog by closing)
SetDisplay ==
    /\ ctrlPc = "set_disp"
    /\ pending' = [pending EXCEPT !.display = hkReq.display]
    /\ IF hwnd /\ winPc # "exited"
       THEN /\ Len(msgq) < MaxMsgs
            /\ msgq' = Append(msgq, "WM_APP_SET_HOTKEY")
       ELSE UNCHANGED msgq
    /\ IF hkReq.from = "init"
       THEN tray_start
       ELSE UNCHANGED <<trayRunning, q, produced>>
    /\ hkReq' = NoRequest
    /\ ctrlPc' = "idle"
    /\ UNCHANGED <<pynput_available, hk, hkKind, winPc, hwnd, active, registered,
                   winTmp, winStop, heldElsewhere, pynListener, applies, prevReg, ctrlFrame>>

\* The Apply button of the hotkey dialog, pressed with the hotkey choice.
\* An unsupported key ends it with a message box.  On Windows the listener is
\* always a WindowsHotkeyListener once __init__ has run.
ApplyHotkey(choice) ==
    /\ ctrlPc = "idle"
    /\ applies < MaxApplies
    /\ applies' = applies + 1
    /\ IF osName = "nt"
       THEN LET w == hotkey_to_win32(choice)
            IN  IF w.vk = NoneInt
                THEN UNCHANGED <<hk, hkReq, ctrlPc, hkKind, pynListener, q, produced>>
                ELSE /\ hkKind = "win"
                     /\ hk' = choice
                     /\ hkReq' = Request(w.mods, w.vk, format_hotkey_display(choice), "apply")
                     /\ ctrlPc' = "set_mods"
                     /\ UNCHANGED <<hkKind, pynListener, q, produced>>
       ELSE LET combo == hotkey_to_pynput(choice)
            IN  IF combo = <<>>
                THEN UNCHANGED <<hk, hkReq, ctrlPc, hkKind, pynListener, q, produced>>
                ELSE /\ hk' = choice
                     /\ IF hkKind = "pynput"
                        THEN /\ pyn_set_hotkey(combo, format_hotkey_display(choice))
                             /\ UNCHANGED hkKind
                        ELSE setup_pynput(choice)
                     /\ UNCHANGED <<hkReq, ctrlPc>>
    /\ UNCHANGED <<pynput_available, winPc, hwnd, active, pending, registered, winTmp,
                   msgq, winStop, heldElsewhere, trayRunning, prevReg, ctrlFrame>>

\* WindowsHotkeyListener.stop() or PynputHotkeyListener.stop(), whichever
\* self.hotkey_listener is
hotkey_stop ==
    /\ msgq' = IF hkKind = "win" /\ hwnd /\ winPc # "exited"
               THEN Append(msgq, "WM_CLOSE") ELSE msgq
    /\ winStop' = (winStop \/ hkKind = "win")
    /\ pynListener' = IF hkKind = "pynput"
                      THEN [pynListener EXCEPT !.running = FALSE] ELSE pynListener

InitHotkey(pynput, hotkey, kind) ==
    /\ pynput_available = pynput
    /\ hk = hotkey
    /\ hkKind = kind
    /\ winPc = "off"
    /\ hwnd = FALSE
    /\ active = DefaultBinding
    /\ pending = NonePending
    /\ registered = NoReg
    /\ winTmp = NonePending
    /\ msgq = <<>>
    /\ winStop = FALSE
    /\ heldElsewhere = {}
    /\ pynListener = NoListener
    /\ hkReq = NoRequest
    /\ applies = 0
    /\ prevReg = NoReg

(***************************************************************************)
(* Event bus: the queue of Me and ClipboardManager._process_events.        *)
(***************************************************************************)
TrayKinds == {"TRAY_TOGGLE", "TRAY_TOGGLE_MONITOR", "TRAY_EXIT"}

\* a plausible bug: the tray thread's on_toggle_monitor flips the flag itself
TrayClick_direct(kind) ==
    /\ trayRunning
    /\ CanPut(Me)
    /\ IF kind = "TRAY_TOGGLE_MONITOR"
       THEN /\ toggle_monitoring
            /\ UNCHANGED <<q, produced, searchVars>>
       ELSE /\ Put(Me, Event(kind, NoPayload))
            /\ UNCHANGED historyVars
    /\ UNCHANGED <<consumed, ctrlPc, window_visible, trayRunning, osName,
                   arbiterVars, hotkeyVars>>

\* TrayManager: on_show_hide, on_toggle_monitor, on_exit
TrayClick(kind) ==
    /\ trayRunning
    /\ CanPut(Me)
    /\ Put(Me, Event(kind, NoPayload))
    /\ UNCHANGED <<consumed, ctrlPc, window_visible, trayRunning, historyVars, osName,
                   arbiterVars, hotkeyVars>>

\* exit_app: the hotkey listener, the tray and the arbiter stop; destroy()
\* releases the window
exit_app ==
    /\ hotkey_stop
    /\ trayRunning' = FALSE
    /\ ipc_stop(Me)
    /\ window_visible' = FALSE

\* a plausible bug: the drain takes the newest event first
take_newest(queue) ==
    [ev |-> queue[Len(queue)], rest |-> SubSeq(queue, 1, Len(queue) - 1)]

\* get_nowait(): the event taken and what stays queued
take(queue) == [ev |-> Head(queue), rest |-> Tail(queue)]

\* what exit_app changes
exitVars ==
    <<msgq, winStop, pynListener, trayRunning, ipcStop, bound, listening, window_visible>>

\* _process_events: one pass of the while loop that gets an event.  After
\* exit_app has destroyed the window the loop goes on: toggle_window and a
\* second destroy() raise TclError, which ends the loop without rescheduling.
DrainOne ==
    /\ procPc[Me] = "owner"
    /\ ctrlPc \in {"idle", "draining", "destroyed"}
    /\ q[Me] # <<>>
    /\ LET t == take(q[Me])
           kind == t.ev.kind
           gone == ctrlPc = "destroyed"
       IN  /\ q' = [q EXCEPT ![Me] = t.rest]
           /\ consumed' = Append(consumed, t.ev)
           /\ CASE kind \in {"HOTKEY", "SHOW", "TRAY_TOGGLE"} ->
                     /\ window_visible' = IF gone THEN window_visible ELSE ~window_visible
                     /\ ctrlPc' = IF gone THEN "exited" ELSE "draining"
                     /\ UNCHANGED <<msgq, winStop, pynListener, trayRunning, ipcStop,
                                    bound, listening, historyVars>>
                [] kind = "TRAY_EXIT" ->
                     /\ exit_app
                     /\ ctrlPc' = IF gone THEN "exited" ELSE "destroyed"
                     /\ UNCHANGED historyVars
                [] kind = "TRAY_TOGGLE_MONITOR" ->
                     /\ toggle_monitoring
                     /\ ctrlPc' = IF gone THEN "destroyed" ELSE "draining"
                     /\ UNCHANGED <<exitVars, searchVars>>
                [] OTHER ->
                     /\ ctrlPc' = IF gone THEN "destroyed" ELSE "draining"
                     /\ UNCHANGED <<exitVars, historyVars>>
    /\ UNCHANGED <<produced, osName, procPc, connTo, connState, connData, showSent,
                   srvPc, srvClient, pynput_available, hk, hkKind, winPc, hwnd, active,
                   pending, registered, winTmp, heldElsewhere, hkReq, applies, prevReg>>

\* a plausible bug: the tick ends after one event, whatever is still queued
DrainEmpty_early ==
    /\ ctrlPc \in {"draining", "destroyed"}
    /\ ctrlPc' = IF ctrlPc = "destroyed" THEN "exited" ELSE "idle"
    /\ UNCHANGED <<q, produced, consumed, window_visible, trayRunning, historyVars,
                   osName, arbiterVars, hotkeyVars>>

\* _process_events: get_nowait() raises queue.Empty; the next tick is scheduled
\* (once the window is destroyed mainloop() has returned and nothing runs it)
DrainEmpty ==
    /\ ctrlPc \in {"draining", "destroyed"}
    /\ q[Me] = <<>>
    /\ ctrlPc' = IF ctrlPc = "destroyed" THEN "exited" ELSE "idle"
    /\ UNCHANGED <<q, produced, consumed, window_visible, trayRunning, historyVars,
                   osName, arbiterVars, hotkeyVars>>

InitBus(pc, visible) ==
    /\ q = [p \in Procs |-> <<>>]
    /\ produced = <<>>
    /\ consumed = <<>>
    /\ ctrlPc = pc
    /\ window_visible = visible
    /\ trayRunning = FALSE

AbsentFile == [kind |-> "absent", items |-> <<>>]
OsNames == {"nt", "posix"}

\* Before ClipboardManager.__init__ has run: nothing is loaded.
InitUnbuilt(file) ==
    /\ persisted = file
    /\ history = <<>>
    /\ last_clip = NoClip
    /\ monitoring_paused = FALSE
    /\ clock = StartTime
    /\ lastOp = Op("none", <<>>, <<>>, <<>>)
    /\ search_var = <<>>
    /\ search_warn_var = ""
    /\ filtered_items = <<>>

(***************************************************************************)
(* The history store under the controller's commands, monitoring active    *)
(* (the default settings), in the one running instance; it runs where      *)
(* there is neither a tray nor pynput, and its queue is drained.           *)
(***************************************************************************)
RunningAlone == [p \in Procs |-> IF p = Me THEN "owner" ELSE "unlaunched"]

Init ==
    /\ \E file \in PersistedFiles : InitHistory(file, FALSE)
    /\ InitArbiter("posix", RunningAlone)
    /\ InitBus("idle", TRUE)
    /\ InitHotkey(FALSE, DefaultHotkey, "pynput")

Next ==
    \/ Poll
    \/ TogglePin
    \/ Remove
    \/ Clear

Spec == Init /\ [][Next]_vars

(***************************************************************************)
(* Two launches of the program race for the endpoint.                      *)
(***************************************************************************)
InitRace ==
    /\ \E file \in PersistedFiles : InitUnbuilt(file)
    /\ \E os \in OsNames : InitArbiter(os, [p \in Procs |-> "main"])
    /\ InitBus("unbuilt", FALSE)
    /\ InitHotkey(FALSE, DefaultHotkey, "none")

NextRace ==
    \/ \E p \in Procs : Bind(p)
    \/ \E p \in Procs : Listen(p)
    \/ \E p \in Procs : Construct(p)
    \/ \E p \in Procs : Connect(p)
    \/ \E p \in Procs : RecvReply(p)
    \/ \E o \in Procs : Accept(o)
    \/ \E o \in Procs : Serve(o)

SpecRace == InitRace /\ [][NextRace]_vars

(***************************************************************************)
(* The hotkey of the running instance: the controller sets it up and the   *)
(* user replaces it, the capture source registers it, other programs take  *)
(* and release combinations, the user presses the registered one.          *)
(***************************************************************************)
InitHotkeys ==
    /\ InitHistory(AbsentFile, FALSE)
    /\ \E os \in OsNames : InitArbiter(os, RunningAlone)
    /\ InitBus("setup", TRUE)
    /\ \E pynput \in BOOLEAN, h \in HotkeyChoices :
          /\ osName = "nt" => pynput
          /\ InitHotkey(pynput, h, "none")

NextHotkeys ==
    \/ SetupHotkey
    \/ SetupReady
    \/ SetMods
    \/ SetVk
    \/ SetDisplay
    \/ \E choice \in HotkeyChoices : ApplyHotkey(choice)
    \/ WinCreateWindow
    \/ WinRegisterInitial
    \/ WinHotkeyMsg
    \/ WinSetMsg
    \/ WinReadVk
    \/ WinReadDisplay
    \/ WinRegisterNew
    \/ WinRollback
    \/ KeyPress
    \/ \E key \in RegKeys : OtherGrab(key)
    \/ \E key \in RegKeys : OtherRelease(key)
    \/ PynKeyPress

SpecHotkeys == InitHotkeys /\ [][NextHotkeys]_vars

(***************************************************************************)
(* The event queue of the running instance: its hotkey is set up, and the  *)
(* hotkey thread, the tray thread and the arbiter thread (serving later    *)
(* launches of the program) put events while the controller drains.        *)
(***************************************************************************)
Launched == [p \in Procs |-> IF p = Me THEN "owner" ELSE "main"]

\* The capture source once _setup_hotkey has run and its events are drained:
\* the default hotkey is registered.
InitHotkeyReady(os) ==
    /\ pynput_available = TRUE
    /\ hk = DefaultHotkey
    /\ hkKind = IF os = "nt" THEN "win" ELSE "pynput"
    /\ winPc = IF os = "nt" THEN "loop" ELSE "off"
    /\ hwnd = (os = "nt")
    /\ active = DefaultBinding
    /\ pending = IF os = "nt" THEN DefaultBinding ELSE NonePending
    /\ registered = IF os = "nt" THEN RegKey(DefaultBinding) ELSE NoReg
    /\ winTmp = NonePending
    /\ msgq = <<>>
    /\ winStop = FALSE
    /\ heldElsewhere = {}
    /\ pynListener = IF os = "nt" THEN NoListener
                     ELSE PynListener(TRUE, hotkey_to_pynput(DefaultHotkey),
                                      format_hotkey_display(DefaultHotkey))
    /\ hkReq = NoRequest
    /\ applies = 0
    /\ prevReg = NoReg

InitQueue ==
    /\ InitHistory(AbsentFile, FALSE)
    /\ \E os \in OsNames :
          /\ InitArbiter(os, Launched)
          /\ InitHotkeyReady(os)
          /\ q = [p \in Procs |-> <<>>]
          /\ produced = <<>>
          /\ consumed = <<>>
          /\ ctrlPc = "idle"
          /\ window_visible \in BOOLEAN
          /\ trayRunning = (os = "nt")

NextQueue ==
    \/ KeyPress
    \/ WinHotkeyMsg
    \/ WinCloseMsg
    \/ WinStopped
    \/ PynKeyPress
    \/ \E kind \in TrayKinds : TrayClick(kind)
    \/ \E p \in Procs : Bind(p)
    \/ \E p \in Procs : Listen(p)
    \/ \E p \in Procs : Construct(p)
    \/ \E p \in Procs : Connect(p)
    \/ \E p \in Procs : RecvReply(p)
    \/ \E o \in Procs : Accept(o)
    \/ \E o \in Procs : Serve(o)
    \/ DrainOne
    \/ DrainEmpty

SpecQueue == InitQueue /\ [][NextQueue]_vars

\* The three sources and the drain, from a running controller.
NextDrain ==
    \/ KeyPress
    \/ WinHotkeyMsg
    \/ PynKeyPress
    \/ \E kind \in TrayKinds : TrayClick(kind)
    \/ \E p \in Procs : Bind(p)
    \/ \E p \in Procs : Connect(p)
    \/ \E o \in Procs : Accept(o)
    \/ \E o \in Procs : Serve(o)
    \/ DrainOne
    \/ DrainEmpty

\* The Tk main loop runs the tick that after(50, ...) scheduled, and inside a
\* tick the while loop goes on to its next get_nowait().  Nothing is assumed
\* of the sources.
SpecDrain ==
    /\ InitQueue
    /\ [][NextDrain]_vars
    /\ WF_vars(DrainOne)
    /\ WF_vars(DrainEmpty)

(***************************************************************************)
(* Properties of the history store.                                        *)
(***************************************************************************)
IndexOf(h, txt) == FirstIndex(h, txt)

\* the entries of texts other than txt, in order
Others(h, txt) == SelectSeq(h, LAMBDA e : e.text # txt)

IsPrefixOf(s, t) == Len(s) <= Len(t) /\ s = SubSeq(t, 1, Len(s))

\* all pinned entries come first
PinnedFirst(h) ==
    \A i, j \in 1..Len(h) : (i < j /\ h[j].pinned) => h[i].pinned

\* C1: after load and after any sequence of capture, toggle_pin, remove and
\* clear, no two entries of the history have the same text.
C1_NoDuplicateTexts ==
    \A i, j \in 1..Len(history) : i # j => history[i].text # history[j].text

\* C1 witness: a capture has just replaced an entry that was already in the
\* history (it is pinned, so it was there before), next to other entries.
C1_Witness ==
    /\ lastOp.op = "capture"
    /\ Len(history) >= 3
    /\ history[1].text = lastOp.text
    /\ history[1].pinned

\* C2: after every history operation the number of unpinned entries is at most
\* MAX_ITEMS.
C2_UnpinnedWithinCap == unpinned_count(history) <= MAX_ITEMS

\* C2 witness: a capture has just evicted an entry and the unpinned block is full.
C2_Witness ==
    /\ lastOp.op = "capture"
    /\ lastOp.evicted # {}
    /\ unpinned_count(history) = MAX_ITEMS

\* C3: capacity eviction never removes a pinned entry.  Every entry pinned after
\* load's de-duplication is in the loaded history, and in every step every
\* pinned entry stays in the history and stays pinned, unless the step is
\* remove or toggle_pin of that very entry (toggle_pin keeps it, unpinned) or
\* clear.
C3_PinnedNeverEvicted ==
    /\ \A i \in 1..Len(load_uniq(persisted, StartTime)) :
          (lastOp.op = "load" /\ load_uniq(persisted, StartTime)[i].pinned)
             => load_uniq(persisted, StartTime)[i] \in { history[j] : j \in 1..Len(history) }
    /\ [][\A i \in 1..Len(history) :
            history[i].pinned =>
               LET txt == history[i].text
                   k == IndexOf(history', txt)
               IN  \/ k # 0 /\ history'[k].pinned
                   \/ lastOp'.op = "toggle_pin" /\ lastOp'.text = txt /\ k # 0
                   \/ lastOp'.op = "remove" /\ lastOp'.text = txt
                   \/ lastOp'.op = "clear"]_vars

\* C3 witness: a capture has just evicted an unpinned entry while pinned entries
\* are in the history.
C3_Witness ==
    /\ lastOp.op = "capture"
    /\ lastOp.evicted # {}
    /\ pinned_count(history) >= 1

\* C4: in every reachable history the pinned entries form a prefix.
C4_PinnedPrefix == PinnedFirst(history)

\* C4 witness: pinned and unpinned entries are both present after a toggle_pin
\* that unpinned an entry.
C4_Witness ==
    /\ lastOp.op = "toggle_pin"
    /\ pinned_count(history) >= 1
    /\ unpinned_count(history) >= 2
    /\ \E i \in 1..Len(history) : history[i].text = lastOp.text /\ ~history[i].pinned

\* C5: a capture of a text that is in the history and pinned puts the entry,
\* still pinned, at the front; any other capture puts the unpinned entry
\* directly after the last pinned entry; the entries of the other texts keep
\* their order (the evicted tail apart).
C5_CapturePlacement ==
    [][lastOp'.op = "capture" =>
         LET txt == lastOp'.text
             i == IndexOf(history, txt)
             wasPinned == i # 0 /\ history[i].pinned
             k == pinned_count(history')
         IN  /\ wasPinned => /\ history'[1].text = txt
                             /\ history'[1].pinned
             /\ ~wasPinned => /\ Len(history') > k
                              /\ history'[k + 1].text = txt
                              /\ ~history'[k + 1].pinned
                              /\ \A j \in 1..k : history'[j].pinned
             /\ IsPrefixOf(Others(history', txt), Others(history, txt))]_vars

\* C5 witness: a pinned text was captured again and now leads two other pinned
\* or unpinned entries.
C5_Witness ==
    /\ lastOp.op = "capture"
    /\ Len(history) >= 3
    /\ history[1].text = lastOp.text
    /\ history[1].pinned
    /\ history[2].pinned

\* toggle_pin_selected twice on the entry with text txt
toggle_twice(h, txt) ==
    LET h1 == toggle_pin(h, h[IndexOf(h, txt)])
    IN  IF IndexOf(h1, txt) = 0 THEN h1
        ELSE toggle_pin(h1, h1[IndexOf(h1, txt)])

\* C6: for every reachable history and every unpinned entry e in it, toggle_pin(e)
\* twice leaves e in the history exactly once, unpinned, with the same text and
\* behind all pinned entries.
C6_ToggleTwice ==
    \A i \in 1..Len(history) :
        ~history[i].pinned =>
            LET txt == history[i].text
                h2 == toggle_twice(history, txt)
                k == IndexOf(h2, txt)
            IN  /\ k # 0
                /\ ~h2[k].pinned
                /\ k > pinned_count(h2)
                /\ PinnedFirst(h2)
                /\ Len(Others(h2, txt)) = Len(h2) - 1

\* C6 witness: toggle_pin ran twice in a row on one entry, which is unpinned
\* again and stands behind a pinned entry.
C6_Witness ==
    /\ lastOp.op = "toggle_pin"
    /\ lastOp.again
    /\ pinned_count(history) >= 1
    /\ \E i \in 1..Len(history) : history[i].text = lastOp.text /\ ~history[i].pinned

(***************************************************************************)
(* Properties of the single-instance arbiter.                              *)
(***************************************************************************)
Owners == { p \in Procs : procPc[p] = "owner" }

Settled == \A p \in Procs : procPc[p] \in {"owner", "done"}

\* C7: when the launches that race for the endpoint have all finished their
\* start-up, exactly one of them is owner (start() returned True and it built
\* the controller) and every other one has terminated without a controller
\* after sending exactly one SHOW request.
C7_ExactlyOneOwner ==
    Settled =>
        /\ Cardinality(Owners) = 1
        /\ \A p \in Procs \ Owners : procPc[p] = "done" /\ showSent[p] = 1


(***************************************************************************)
(* Properties of the hotkey capture sources.                               *)
(***************************************************************************)
\* the hotkey thread leaves wndproc's rollback branch
RollbackDone == winPc = "rollback" /\ winPc' # "rollback"

LastPut == produced'[Len(produced')]

ReplaceDone ==
    /\ winPc \in {"replace", "rollback"}
    /\ winPc' \notin {"replace", "rollback"}
    /\ prevReg # NoReg

\* C9: every completed replacement that starts with one active binding ends
\* with one active binding, the new one or the previous one: on Windows a
\* combination is registered, with pynput a listener runs.
C9_NeverNone ==
    [][/\ ReplaceDone => registered' \in {RegKey(winTmp), prevReg}
       /\ (pynListener.running /\ pynListener' # pynListener) =>
             /\ pynListener'.running
             /\ pynListener'.combo \in {pynListener.combo, hotkey_to_pynput(hk')}]_vars

Consumes(kind) ==
    /\ Len(consumed') = Len(consumed) + 1
    /\ consumed'[Len(consumed')].kind = kind
    /\ ctrlPc \in {"idle", "draining"}

\* C11: when the owner's controller has consumed the SHOW event of a
\* challenger's request, the owner's window is visible, whatever it was before.
C11_ShowSurfaces == [][Consumes("SHOW") => window_visible']_vars

(***************************************************************************)
(* The history commands together with the monitoring switch; the settings  *)
(* file may have left monitoring paused (_load_settings).                  *)
(***************************************************************************)
InitMonitor ==
    /\ \E paused \in BOOLEAN : InitHistory(AbsentFile, paused)
    /\ InitArbiter("posix", RunningAlone)
    /\ InitBus("idle", TRUE)
    /\ InitHotkey(FALSE, DefaultHotkey, "pynput")

NextMonitor ==
    \/ Poll
    \/ Monitoring
    \/ TogglePin
    \/ Remove
    \/ Clear

SpecMonitor == InitMonitor /\ [][NextMonitor]_vars

\* a poll tick that reads the clipboard text txt (trimmed, non-empty)
Observes(read, txt) ==
    /\ read.readable
    /\ strip(read.data) = txt
    /\ txt # <<>>
    /\ lastOp'.text = txt
    /\ PollClipboard(read)

\* C12: a tick that observes a text while monitoring is paused records it as
\* last_seen and adds nothing; switching monitoring leaves last_seen alone; a
\* tick that observes the text last_seen holds adds nothing, so the text seen
\* while paused is not added after the resume while the clipboard keeps it;
\* and a tick adds an entry only when monitoring is active and the trimmed,
\* non-empty text differs from last_seen.
C12_PausedTextNotCaptured ==
    [][/\ \A read \in ClipboardReads : \A txt \in Texts :
            Observes(read, txt) =>
                /\ monitoring_paused => (last_clip' = txt /\ history' = history)
                /\ txt = last_clip => history' = history
                /\ history' # history =>
                      (~monitoring_paused /\ txt # last_clip /\ last_clip' = txt)
       /\ \A read \in ClipboardReads :
            (history' # history /\ PollClipboard(read)) =>
                (read.readable /\ strip(read.data) # <<>>)
       /\ ToggleMonitoring => (last_clip' = last_clip /\ history' = history)
      ]_vars

\* monitoring was resumed after a paused tick recorded a text, and a later
\* tick read the same text again without adding it
C12_Witness ==
    /\ lastOp.op = "poll"
    /\ lastOp.text # <<>>
    /\ lastOp.text = last_clip
    /\ ~monitoring_paused
    /\ last_clip \notin TextsOf(history)
    /\ clock = StartTime + 1

\* C13: exit_app stops hotkey capture, tray and arbiter and then releases the
\* window, and once the controller has stopped draining the bus no source
\* enqueues an event on it.
C13_NoPutAfterDrainStops ==
    [][ctrlPc = "exited" => produced' = produced]_vars

(***************************************************************************)
(* Properties of loading the persisted history.                            *)
(***************************************************************************)
\* the persisted list is in the new format: its first element is a dict
NewFormat(file) == file.items # <<>> /\ file.items[1].kind = "dict"

\* a record of the persisted list that is well-formed for the list's format:
\* a text that is not empty after trimming and, in a dict, a usable timestamp
WellFormed(file, k) ==
    LET d == file.items[k]
    IN  IF NewFormat(file)
        THEN /\ d.kind = "dict"
             /\ d.text.tag = "str"
             /\ strip(d.text.val) # <<>>
             /\ d.ts.tag # "bad"
        ELSE /\ d.kind = "str"
             /\ strip(d.text.val) # <<>>

\* the entry a well-formed record stands for
RecordEntry(file, k, now) ==
    LET d == file.items[k]
    IN  IF NewFormat(file)
        THEN Entry(strip(d.text.val), IF d.ts.tag = "missing" THEN now ELSE d.ts.val,
                   d.pinned)
        ELSE Entry(strip(d.text.val), now - (k - 1), FALSE)

\* the well-formed records from position k on, in persisted order
RECURSIVE WellFormedFrom(_, _, _)
WellFormedFrom(file, k, now) ==
    IF k > Len(file.items) THEN <<>>
    ELSE IF WellFormed(file, k)
         THEN <<RecordEntry(file, k, now)>> \o WellFormedFrom(file, k + 1, now)
         ELSE WellFormedFrom(file, k + 1, now)

\* the state right after construction, the controller having read a list
Loaded == lastOp.op = "load" /\ persisted.kind = "list"

\* C14: on load every malformed record and every duplicate (first occurrence
\* kept) is dropped on its own and the other well-formed records load in
\* persisted order: a malformed record never keeps the others from loading.
C14_MalformedDroppedIndividually ==
    Loaded =>
        history = trim_history(dedupe(WellFormedFrom(persisted, 1, StartTime), <<>>))

(***************************************************************************)
(* Construction over a history file in the legacy format: a list whose     *)
(* first element is not a dict.                                            *)
(***************************************************************************)
LegacyItems ==
    { StrItem(<<"a">>), StrItem(<<" ", "a">>), StrItem(<<"b", " ">>),
      StrItem(<<"a", "b">>), StrItem(<<" ">>), OtherItem }

LegacyFiles ==
    { [kind |-> "list", items |-> s] : s \in SeqsUpTo(LegacyItems, MaxLegacyLen) }

BoundAndListening == [p \in Procs |-> IF p = Me THEN "started" ELSE "unlaunched"]

InitLoad ==
    /\ \E file \in LegacyFiles : InitUnbuilt(file)
    /\ InitArbiter("posix", BoundAndListening)
    /\ InitBus("unbuilt", FALSE)
    /\ InitHotkey(FALSE, DefaultHotkey, "none")

NextLoad == \E p \in Procs : Construct(p)

SpecLoad == InitLoad /\ [][NextLoad]_vars

\* the distinct non-empty (trimmed) strings of a legacy list
LegacyStrings(file) ==
    { strip(file.items[k].text.val) :
        k \in { j \in 1..Len(file.items) : file.items[j].kind = "str" } } \ { <<>> }

\* 1-based position of the first element of the list whose trimmed string is txt
FirstPosition(file, txt) ==
    CHOOSE k \in 1..Len(file.items) :
        /\ file.items[k].kind = "str"
        /\ strip(file.items[k].text.val) = txt
        /\ \A j \in 1..(k - 1) :
              ~(file.items[j].kind = "str" /\ strip(file.items[j].text.val) = txt)

\* unpinned entries, one per text, every text a string of the list, in list
\* order, with strictly decreasing timestamps
LegacyShape(h, file) ==
    /\ \A i \in 1..Len(h) : ~h[i].pinned /\ h[i].text \in LegacyStrings(file)
    /\ \A i, j \in 1..Len(h) :
          i < j => /\ h[i].text # h[j].text
                   /\ FirstPosition(file, h[i].text) < FirstPosition(file, h[j].text)
                   /\ h[i].ts > h[j].ts

LoadedLegacy == Loaded /\ ~NewFormat(persisted)

Min(a, b) == IF a < b THEN a ELSE b

\* C15: a legacy list loads as unpinned entries, one per distinct non-empty
\* string, in list order with strictly decreasing timestamps; the entries are
\* those of the first MAX_ITEMS distinct strings of the list.
C15_LegacyLoadsCapped ==
    LoadedLegacy =>
        /\ LegacyShape(history, persisted)
        /\ Len(history) = Min(MAX_ITEMS, Cardinality(LegacyStrings(persisted)))
        /\ \A txt \in LegacyStrings(persisted) \ TextsOf(history) :
              \A i \in 1..Len(history) :
                 FirstPosition(persisted, history[i].text) < FirstPosition(persisted, txt)

\* C15 as stated: every distinct non-empty string of the list has its entry
C15_LegacyLoadsEveryString ==
    LoadedLegacy =>
        /\ LegacyShape(history, persisted)
        /\ TextsOf(history) = LegacyStrings(persisted)

\* a legacy list with a duplicate has been loaded as two entries
C15_Witness ==
    /\ LoadedLegacy
    /\ Len(persisted.items) = 3
    /\ Len(history) = 2
    /\ Cardinality(LegacyStrings(persisted)) = 2
    /\ history[1].ts > history[2].ts

(***************************************************************************)
(* The search box: a ttk.Entry with validate="key", whose validatecommand  *)
(* is _validate_search with %P, the text the box would hold after the edit.*)
(***************************************************************************)
SearchChars == {"a", " "}

\* what an edit (typing, deleting, pasting over a selection) can propose
ProposedTexts == SeqsUpTo(SearchChars, MAX_SEARCH_CHARS + 1)

SEARCH_WARNING == "Search limited to MAX_SEARCH_CHARS characters"

\* _validate_search with the other comparison
validate_search_below(proposed) == Len(proposed) < MAX_SEARCH_CHARS

\* _validate_search: its return value
validate_search(proposed) == Len(proposed) <= MAX_SEARCH_CHARS

\* One edit of the search box: Tk applies it only when _validate_search
\* returns True.
SearchKey(proposed) ==
    /\ ctrlPc = "idle"
    /\ IF validate_search(proposed)
       THEN /\ search_var' = proposed
            /\ search_warn_var' = ""
       ELSE /\ search_warn_var' = SEARCH_WARNING
            /\ UNCHANGED search_var
    /\ lastOp' = NextOp("search", proposed, history, history)
    /\ UNCHANGED <<history, last_clip, monitoring_paused, persisted, clock,
                   filtered_items, osName, arbiterVars, busVars, hotkeyVars>>

InitSearch ==
    /\ InitHistory(AbsentFile, FALSE)
    /\ InitArbiter("posix", RunningAlone)
    /\ InitBus("idle", TRUE)
    /\ InitHotkey(FALSE, DefaultHotkey, "pynput")

NextSearch == \E proposed \in ProposedTexts : SearchKey(proposed)

SpecSearch == InitSearch /\ [][NextSearch]_vars

\* the edit of the search box that has just been validated
Proposed == lastOp'.text

\* C16: an edit that proposes more than MAX_SEARCH_CHARS characters is
\* rejected and the query stays what it was (it is not cut to the limit); an
\* edit that proposes at most MAX_SEARCH_CHARS characters is accepted.
C16_SearchLengthValidated ==
    [][lastOp'.op = "search" =>
          /\ Len(Proposed) > MAX_SEARCH_CHARS =>
                (search_var' = search_var /\ search_warn_var' # "")
          /\ Len(Proposed) <= MAX_SEARCH_CHARS =>
                (search_var' = Proposed /\ search_warn_var' = "")
      ]_vars

\* a query of the full length is in the box and a longer proposal was rejected
C16_Witness ==
    /\ lastOp.op = "search"
    /\ Len(lastOp.text) > MAX_SEARCH_CHARS
    /\ Len(search_var) = MAX_SEARCH_CHARS
    /\ search_warn_var # ""

(***************************************************************************)
(* The history commands from an empty history.  The controller was built   *)
(* one tick before StartTime, so that the run has room for three captures. *)
(***************************************************************************)
InitScenario ==
    /\ persisted = AbsentFile
    /\ history = <<>>
    /\ last_clip = NoClip
    /\ monitoring_paused = FALSE
    /\ clock = StartTime
    /\ lastOp = Op("load", <<>>, <<>>, <<>>)
    /\ search_var = <<>>
    /\ search_warn_var = ""
    /\ filtered_items = <<>>
    /\ InitArbiter("posix", RunningAlone)
    /\ InitBus("idle", TRUE)
    /\ InitHotkey(FALSE, DefaultHotkey, "pynput")

SpecScenario == InitScenario /\ [][Next]_vars

\* the two texts of the scenario
alpha == <<"a">>
beta == <<"a", "b">>

FirstTick == StartTime

\* the command that has just run, as lastOp records it
Ran(op, txt) == lastOp'.op = op /\ lastOp'.text = txt

\* the history holds exactly these texts, in this order, none of them pinned
Holds(txts) ==
    /\ Len(history) = Len(txts)
    /\ \A i \in 1..Len(txts) : history[i].text = txts[i] /\ ~history[i].pinned

\* C17: from the empty history, capture "alpha", capture "beta", capture
\* "alpha" give [alpha, beta], alpha with the newest timestamp; toggle_pin of
\* "beta" then gives [beta (pinned), alpha].
C17_Scenario ==
    [][/\ (Holds(<<>>) /\ Ran("capture", alpha)) =>
             history' = <<Entry(alpha, clock, FALSE)>>
       /\ (Holds(<<alpha>>) /\ Ran("capture", beta)) =>
             history' = <<Entry(beta, clock, FALSE), history[1]>>
       /\ (Holds(<<beta, alpha>>) /\ Ran("capture", alpha)) =>
             /\ history' = <<Entry(alpha, clock, FALSE), history[1]>>
             /\ history'[1].ts > history'[2].ts
       /\ (Holds(<<alpha, beta>>) /\ Ran("toggle_pin", beta)) =>
             history' = <<[history[2] EXCEPT !.pinned = TRUE], history[1]>>
      ]_vars

\* the end of the scenario: three captures, then beta pinned above alpha
C17_Witness ==
    /\ history = <<Entry(beta, FirstTick + 1, TRUE), Entry(alpha, FirstTick + 2, FALSE)>>
    /\ lastOp.op = "toggle_pin"
    /\ lastOp.text = beta
    /\ clock = FirstTick + 3

(***************************************************************************)
(* Properties of the event sources.                                        *)
(***************************************************************************)
\* a step of the arbiter's accept thread, of the hotkey thread or of the
\* tray thread
AcceptThreadStep == \E o \in Procs : Accept(o) \/ Serve(o)

HotkeyThreadStep ==
    \/ WinCreateWindow
    \/ WinRegisterInitial
    \/ WinHotkeyMsg
    \/ WinSetMsg
    \/ WinReadVk
    \/ WinReadDisplay
    \/ WinRegisterNew
    \/ WinRollback
    \/ WinCloseMsg
    \/ WinStopped
    \/ PynKeyPress

TrayThreadStep == \E kind \in TrayKinds : TrayClick(kind)

\* every queue is what it was, or what it was with one event appended
OnlyAppends ==
    \A p \in Procs :
        \/ q'[p] = q[p]
        \/ /\ Len(q'[p]) = Len(q[p]) + 1
           /\ SubSeq(q'[p], 1, Len(q[p])) = q[p]

\* C18: every step of the accept thread, the hotkey thread and the tray thread
\* leaves history, last_seen and the monitoring flag as they are, and does
\* nothing to the event queue but append to it.
C18_SourcesOnlyEnqueue ==
    [][(AcceptThreadStep \/ HotkeyThreadStep \/ TrayThreadStep) =>
          /\ UNCHANGED <<history, last_clip, monitoring_paused>>
          /\ OnlyAppends
      ]_vars

\* the hotkey source and another source have enqueued, nothing is consumed yet
C18_Witness ==
    /\ Len(q[Me]) = 2
    /\ q[Me] = produced
    /\ q[Me][1].kind # q[Me][2].kind
    /\ "HOTKEY" \in {q[Me][1].kind, q[Me][2].kind}
    /\ consumed = <<>>

(***************************************************************************)
(* Properties of auto-save.                                                *)
(***************************************************************************)
\* the document holds, record by record, the entries of h
SameRecords(file, h) ==
    /\ file.kind = "list"
    /\ Len(file.items) = Len(h)
    /\ \A i \in 1..Len(h) :
          /\ file.items[i].kind = "dict"
          /\ file.items[i].text = [tag |-> "str", val |-> h[i].text]
          /\ file.items[i].ts = [tag |-> "num", val |-> h[i].ts]
          /\ file.items[i].pinned = h[i].pinned

MutatingCommands == {"capture", "toggle_pin", "remove", "clear"}

\* C19: when a capture, a toggle_pin, a remove or a confirmed clear has
\* completed, the persisted record list equals the history in memory: same
\* order, texts, timestamps and pinned flags.
C19_PersistedAfterMutation ==
    lastOp.op \in MutatingCommands => SameRecords(persisted, history)

\* a pin has just been saved: a pinned record above an unpinned one
C19_Witness ==
    /\ lastOp.op = "toggle_pin"
    /\ Len(history) = 2
    /\ history[1].pinned
    /\ ~history[2].pinned
    /\ SameRecords(persisted, history)

(***************************************************************************)
(* The running instance and everything that reaches it: the user at the    *)
(* window, the menus and the hotkey dialog, the clipboard, other programs  *)
(* taking hotkeys, later launches and foreign connections to the port.     *)
(***************************************************************************)
\* The Exit command of the File menu or of the context menu: exit_app runs
\* from mainloop(), and destroy() ends mainloop().
ExitMenu ==
    /\ procPc[Me] = "owner"
    /\ ctrlPc = "idle"
    /\ exit_app
    /\ ctrlPc' = "exited"
    /\ UNCHANGED <<q, produced, consumed, historyVars, osName, procPc, connTo,
                   connState, connData, showSent, srvPc, srvClient, pynput_available,
                   hk, hkKind, winPc, hwnd, active, pending, registered, winTmp,
                   heldElsewhere, hkReq, applies, prevReg>>

\* _hide_window: withdraw()
hide_window ==
    /\ window_visible' = FALSE
    /\ UNCHANGED <<q, produced, consumed, ctrlPc, trayRunning, historyVars, osName,
                   arbiterVars, hotkeyVars>>

\* a plausible bug: WM_DELETE_WINDOW is bound to exit_app
CloseWindow_exits ==
    /\ ctrlPc = "idle"
    /\ window_visible
    /\ exit_app
    /\ ctrlPc' = "exited"
    /\ UNCHANGED <<q, produced, consumed, historyVars, osName, procPc, connTo,
                   connState, connData, showSent, srvPc, srvClient, pynput_available,
                   hk, hkKind, winPc, hwnd, active, pending, registered, winTmp,
                   heldElsewhere, hkReq, applies, prevReg>>

\* The close button of the window: WM_DELETE_WINDOW runs on_close_hide.
CloseWindow ==
    /\ ctrlPc = "idle"
    /\ window_visible
    /\ hide_window

\* <Escape> in the window
EscapeKey ==
    /\ ctrlPc = "idle"
    /\ window_visible
    /\ hide_window

\* A poll tick whose clipboard_get() raises (no text on the clipboard).
PollFailed ==
    /\ PollClipboard([readable |-> FALSE, data |-> <<>>])
    /\ refresh_after
    /\ UNCHANGED notHistoryVars

\* What a program that is not a launch of this one sends to the port: nothing,
\* or bytes that do not start with SHOW.
ProbeData == { <<>>, <<"S", "H", "O">> }

\* the connection of the prober is not open
ProberIdle == connState[Prober] \in {"none", "acked", "dropped_recv", "dropped_send"}

\* the prober connects, sends bytes (or none) and closes its side
ProbeSend(data) ==
    /\ ProberIdle
    /\ \E o \in listening :
          /\ connTo' = [connTo EXCEPT ![Prober] = o]
          /\ connState' = [connState EXCEPT ![Prober] = "queued"]
          /\ connData' = [connData EXCEPT ![Prober] = data]
    /\ UNCHANGED <<procPc, bound, listening, showSent, srvPc, srvClient, ipcStop,
                   historyVars, osName, busVars, hotkeyVars>>

\* the prober connects, sends nothing and keeps the connection open
ProbeHold ==
    /\ ProberIdle
    /\ \E o \in listening :
          /\ connTo' = [connTo EXCEPT ![Prober] = o]
          /\ connState' = [connState EXCEPT ![Prober] = "queued_silent"]
          /\ connData' = [connData EXCEPT ![Prober] = <<>>]
    /\ UNCHANGED <<procPc, bound, listening, showSent, srvPc, srvClient, ipcStop,
                   historyVars, osName, busVars, hotkeyVars>>

\* the prober closes the connection it held open: recv() can return b""
ProbeRelease ==
    /\ connState[Prober] \in {"queued_silent", "accepted_silent"}
    /\ connState' = [connState EXCEPT ![Prober] = IF @ = "queued_silent" THEN "queued"
                                                  ELSE "accepted"]
    /\ UNCHANGED <<procPc, bound, listening, connTo, connData, showSent, srvPc,
                   srvClient, ipcStop, historyVars, osName, busVars, hotkeyVars>>

InitLifecycle == InitQueue

NextLifecycle ==
    \/ WinCloseMsg
    \/ WinStopped
    \/ TrayClick("TRAY_EXIT")
    \/ \E o \in Procs : Accept(o)
    \/ \E o \in Procs : Serve(o)
    \/ DrainOne
    \/ DrainEmpty
    \/ ExitMenu
    \/ CloseWindow
    \/ EscapeKey
    \/ PollFailed
    \/ \E data \in ProbeData : ProbeSend(data)
    \/ \E choice \in HotkeyChoices : ApplyHotkey(choice)
    \/ SetMods
    \/ SetVk
    \/ SetDisplay
    \/ WinSetMsg
    \/ WinReadVk
    \/ WinReadDisplay
    \/ WinRegisterNew
    \/ WinRollback
    \/ \E key \in RegKeys : OtherGrab(key)

SpecLifecycle == InitLifecycle /\ [][NextLifecycle]_vars

(***************************************************************************)
(* Properties of the controller's life.                                    *)
(***************************************************************************)
Running == {"idle", "draining", "set_mods", "set_vk", "set_disp"}

\* exit_app has stopped nothing
NothingStopped ==
    /\ ~winStop
    /\ ~ipcStop[Me]
    /\ Me \in listening
    /\ winPc \notin {"stopping", "exited"}
    /\ trayRunning = (osName = "nt")

\* the controller has just taken an Info or an Error event
ConsumesStatus == Consumes("INFO") \/ Consumes("ERROR")

\* the accept thread has just served a connection that did not ask for SHOW
ServesMalformed ==
    /\ srvPc[Me] = "serve"
    /\ ~is_show(connData[srvClient[Me]])
    /\ Serve(Me)

\* C20: the controller leaves its running states only by the Exit menu
\* command or by consuming a TRAY_EXIT event; closing the window, Escape, a
\* hotkey conflict, a failed clipboard read, a malformed probe and every Info
\* or Error event leave it running, with no source stopped.
C20_ExitOnlyOnRequest ==
    [][/\ (ctrlPc \in Running /\ ctrlPc' \notin Running) =>
             (ExitMenu \/ Consumes("TRAY_EXIT"))
       /\ (/\ ctrlPc \in Running
           /\ NothingStopped
           /\ \/ CloseWindow
              \/ EscapeKey
              \/ PollFailed
              \/ ServesMalformed
              \/ WinRollback
              \/ ConsumesStatus) =>
             (ctrlPc' \in Running /\ NothingStopped')
      ]_vars

\* a hotkey conflict has been reported and the controller has taken the Error
\* event; it runs on, nothing stopped
C20_Witness ==
    /\ consumed # <<>>
    /\ consumed[Len(consumed)].kind = "ERROR"
    /\ ctrlPc \in Running
    /\ NothingStopped
    /\ ~window_visible

(***************************************************************************)
(* Properties of the order of the history.                                 *)
(***************************************************************************)
\* C21: in every reachable state the unpinned entries, which follow the pinned
\* block, are ordered most recent first: their timestamps never increase
\* down the list.
C21_UnpinnedNewestFirst ==
    \A i, j \in 1..Len(history) :
        (i < j /\ ~history[i].pinned /\ ~history[j].pinned) =>
            history[i].ts >= history[j].ts

\* the pinned entries and the unpinned entries of a history, in its order
PinnedPart(h) == SelectSeq(h, LAMBDA e : e.pinned)
UnpinnedPart(h) == SelectSeq(h, LAMBDA e : ~e.pinned)

\* the unpinned entries right after a capture has inserted its entry: the new
\* entry, then the old unpinned entries without the captured text
UnpinnedAfterInsert(h, newEntry) ==
    IF newEntry.pinned THEN UnpinnedPart(h)
    ELSE <<newEntry>> \o SelectSeq(UnpinnedPart(h), LAMBDA e : e.text # newEntry.text)

\* the entry that the capture which has just run has put into the history
Captured ==
    LET k == IndexOf(history, lastOp'.text)
    IN  Entry(lastOp'.text, clock, IF k = 0 THEN FALSE ELSE history[k].pinned)

\* C22: when a capture makes the unpinned count exceed MAX_ITEMS, the pinned
\* entries stay as they are, the first MAX_ITEMS unpinned entries stay in
\* their order, and what is removed is exactly the unpinned entries behind them.
C22_EvictionDropsTail ==
    [][(lastOp'.op = "capture"
          /\ Len(UnpinnedAfterInsert(history, Captured)) > MAX_ITEMS) =>
          LET after == UnpinnedAfterInsert(history, Captured)
          IN  /\ UnpinnedPart(history') = SubSeq(after, 1, MAX_ITEMS)
              /\ PinnedPart(history') = PinnedPart(history)
              /\ history' = PinnedPart(history') \o UnpinnedPart(history')
              /\ lastOp'.evicted =
                    { after[k].text : k \in (MAX_ITEMS + 1)..Len(after) }
      ]_vars

\* a capture has just pushed the oldest unpinned entry out, below a pinned one
C22_Witness ==
    /\ lastOp.op = "capture"
    /\ lastOp.evicted # {}
    /\ Len(history) = MAX_ITEMS + 1
    /\ history[1].pinned
    /\ history[2].text = lastOp.text

\* C23: toggle_pin flips the pinned flag of the entry, keeps its timestamp and
\* its text, and puts it at the head of the list when it becomes pinned, or
\* directly behind the last pinned entry when it becomes unpinned.
C23_TogglePinPlacement ==
    [][lastOp'.op = "toggle_pin" =>
          LET txt == lastOp'.text
              i == IndexOf(history, txt)
              k == IndexOf(history', txt)
          IN  /\ i # 0
              /\ k # 0
              /\ history'[k].pinned = ~history[i].pinned
              /\ history'[k].ts = history[i].ts
              /\ history'[k].text = history[i].text
              /\ Len(SelectSeq(history', LAMBDA e : e.text = txt)) = 1
              /\ IF history'[k].pinned
                 THEN k = 1
                 ELSE /\ k = pinned_count(history') + 1
                      /\ \A j \in 1..(k - 1) : history'[j].pinned
      ]_vars

\* an entry has just been unpinned and stands between a pinned entry and an
\* unpinned one
C23_Witness ==
    /\ lastOp.op = "toggle_pin"
    /\ Len(history) = 3
    /\ history[1].pinned
    /\ history[2].text = lastOp.text
    /\ ~history[2].pinned
    /\ ~history[3].pinned

\* C24: remove deletes the entry with the selected text and leaves every other
\* entry, with its flags, and the order of the others as they were; with
\* nothing to remove (no selection, or a text that no entry has) the history
\* is unchanged.
C24_RemoveOnlyThatEntry ==
    [][/\ \A txt \in Texts \ TextsOf(history) : remove_text(history, txt) = history
       /\ lastOp'.op = "remove" =>
             LET txt == lastOp'.text
                 i == IndexOf(history, txt)
             IN  /\ i # 0
                 /\ history' = SubSeq(history, 1, i - 1)
                                  \o SubSeq(history, i + 1, Len(history))
                 /\ txt \notin TextsOf(history')
       /\ lastOp'.op = "remove_none" =>
             (history' = history /\ persisted' = persisted)
      ]_vars

\* an entry has just been removed; a pinned and an unpinned entry are left
C24_Witness ==
    /\ lastOp.op = "remove"
    /\ Len(history) = 2
    /\ history[1].pinned
    /\ ~history[2].pinned
    /\ history[2].ts > history[1].ts
    /\ lastOp.text \notin TextsOf(history)

\* C25: a confirmed clear empties the whole history, pinned entries too; a
\* declined clear, and a clear of an empty history, leave the history and the
\* persisted document unchanged.
C25_ClearAllOrNothing ==
    [][/\ lastOp'.op = "clear" =>
             (history # <<>> /\ history' = <<>> /\ SameRecords(persisted', <<>>))
       /\ lastOp'.op \in {"clear_declined", "clear_empty"} =>
             (history' = history /\ persisted' = persisted)
       /\ lastOp'.op = "clear_empty" => history = <<>>
      ]_vars

\* a confirmed clear has just emptied a history that held captured texts
C25_Witness ==
    /\ lastOp.op = "clear"
    /\ history = <<>>
    /\ SameRecords(persisted, <<>>)
    /\ last_clip # NoClip

(***************************************************************************)
(* The list view: _refresh_list run by the debounced job of _on_search_key *)
(* and at the end of every command that changes the history.               *)
(***************************************************************************)
\* Longest text typed into the search box while the view is examined.
MaxQueryLen == 2

QueryChars == {"B", " "}

Queries == SeqsUpTo(QueryChars, MaxQueryLen)

\* The job scheduled by _on_search_key: self.after(SEARCH_DEBOUNCE_MS,
\* self._refresh_list).
SearchRefresh ==
    /\ ctrlPc = "idle"
    /\ filtered_items' = refresh_list(history, search_var)
    /\ lastOp' = NextOp("refresh", search_var, history, history)
    /\ UNCHANGED <<history, last_clip, monitoring_paused, persisted, clock,
                   searchBoxVars, osName, arbiterVars, busVars, hotkeyVars>>

NextView ==
    \/ Poll
    \/ Remove
    \/ \E proposed \in Queries : SearchKey(proposed)
    \/ SearchRefresh

SpecView == InitScenario /\ [][NextView]_vars

\* the positions of the history whose fold key contains the query
MatchingPositions(h, query) ==
    { j \in 1..Len(h) :
        casefold(strip(query)) = <<>> \/ contains(h[j].fold, casefold(strip(query))) }

\* the i-th smallest member of a set of positions
NthOf(S, i) == CHOOSE j \in S : Cardinality({ k \in S : k <= j }) = i

\* `view` is the matching entries of h, each once, in the order of h
IsSearchView(view, h, query) ==
    /\ Len(view) = Cardinality(MatchingPositions(h, query))
    /\ \A i \in 1..Len(view) : view[i] = h[NthOf(MatchingPositions(h, query), i)]

\* the step has run _refresh_list
Refreshed == lastOp'.op \in RefreshingCommands \cup {"refresh"}

\* C26: every run of _refresh_list leaves as the view exactly the entries of
\* the history whose fold key contains the trimmed, case-folded text of the
\* search box as a substring, in history order; with an empty query the view
\* is the whole history.
C26_SearchViewIsMatchingSubsequence ==
    [][Refreshed =>
          /\ IsSearchView(filtered_items', history', search_var')
          /\ strip(search_var') = <<>> => filtered_items' = history']_vars

\* a refreshed view for a query with an upper-case letter and a space that
\* matches the second of two entries inside its fold key, not at its start
C26_Witness ==
    /\ lastOp.op = "refresh"
    /\ search_var = <<"B", " ">>
    /\ Len(history) = 2
    /\ history[2].text = <<"a", "b">>
    /\ filtered_items = <<history[2]>>

\* every entry of h has a text that is not empty and has no blank at either
\* end, and a fold key that is the case-folded text
EntriesNormalized(h) ==
    \A i \in 1..Len(h) :
        /\ h[i].text # <<>>
        /\ ~IsSpace(h[i].text[1])
        /\ ~IsSpace(h[i].text[Len(h[i].text)])
        /\ h[i].fold = casefold(h[i].text)

\* the step is a clipboard tick that saw nothing to capture: the read failed,
\* gave no string, or gave a string that is empty once trimmed
SawNothing == lastOp'.op \in {"poll", "capture"} /\ lastOp'.text = <<>>

\* C27: in every reachable history, loaded or built by commands, each entry
\* has a non-empty text without leading or trailing whitespace and a fold key
\* equal to the case-folded text; and a clipboard tick whose value is absent,
\* unreadable or empty after trimming leaves the history as it was.
C27_EntriesNormalized ==
    [][/\ EntriesNormalized(history)
       /\ EntriesNormalized(history')
       /\ SawNothing => history' = history]_vars

\* a tick that saw nothing, with two entries in the history, one of them with
\* a fold key that differs from its text
C27_Witness ==
    /\ lastOp.op = "poll"
    /\ lastOp.text = <<>>
    /\ Len(history) = 2
    /\ \E i \in 1..2 : history[i].text = <<"A">> /\ history[i].fold = <<"a">>

(***************************************************************************)
(* The owner's accept thread with challengers and with a program that is   *)
(* not a launch of this one connecting to the endpoint.                    *)
(***************************************************************************)
InitArbiterRun ==
    /\ InitHistory(AbsentFile, FALSE)
    /\ InitArbiter("posix", Launched)
    /\ InitHotkeyReady("posix")
    /\ q = [p \in Procs |-> <<>>]
    /\ produced = <<>>
    /\ consumed = <<>>
    /\ ctrlPc = "idle"
    /\ window_visible \in BOOLEAN
    /\ trayRunning = FALSE

NextArbiter ==
    \/ \E p \in Procs : Bind(p)
    \/ \E p \in Procs : Connect(p)
    \/ \E p \in Procs : RecvReply(p)
    \/ \E data \in ProbeData : ProbeSend(data)
    \/ ProbeHold
    \/ ProbeRelease
    \/ \E o \in Procs : Accept(o)
    \/ \E o \in Procs : Serve(o)
    \/ \E o \in Procs, stage \in FaultStages : ServeFault(o, stage)
    \/ \E o \in Procs : AcceptExit(o)
    \/ ExitMenu

SpecArbiter == InitArbiterRun /\ [][NextArbiter]_vars

\* The accept thread is a thread of the OS: while it can take a step it
\* eventually takes one.  The backlog of the listening socket is served in
\* order of arrival, so a connection that waits in it is accepted after
\* finitely many others.  Nothing is assumed of the clients.
SpecArbiterFair ==
    /\ SpecArbiter
    /\ \A o \in Procs :
          /\ \A c \in Clients : SF_vars(AcceptFrom(o, c))
          /\ WF_vars(Serve(o))
          /\ WF_vars(AcceptExit(o))

(***************************************************************************)
(* Properties of the owner's accept thread.                                *)
(***************************************************************************)
\* the accept thread of o has finished with the connection it was serving
Served(o) == srvPc[o] = "serve" /\ srvPc'[o] # "serve"

\* the events the step has put on the queue of o
PutBy(o) == SubSeq(q'[o], Len(q[o]) + 1, Len(q'[o]))

\* what _run owes the payload it has received
Owed(data) == IF is_show(data) THEN <<Event("SHOW", NoPayload)>> ELSE <<>>

\* C28: each connection the owner has accepted is finished in one step that
\* leaves it closed; when recv() and sendall() succeed the step has put one
\* SHOW event if the payload starts with the SHOW token and no event
\* otherwise, and has written the acknowledgment; when one of them fails the
\* step has put at most that one event.
C28_ShowOncePerConnection ==
    [][\A o \in Procs :
          Served(o) =>
             LET c == srvClient[o]
             IN  /\ connState'[c] \in {"acked", "dropped_recv", "dropped_send"}
                 /\ q'[o] = q[o] \o PutBy(o)
                 /\ connState'[c] = "acked" => PutBy(o) = Owed(connData[c])
                 /\ connState'[c] = "dropped_send" => PutBy(o) = Owed(connData[c])
                 /\ connState'[c] = "dropped_recv" => PutBy(o) = <<>>]_vars

\* a challenger's SHOW and a probe's "SHO" have both been acknowledged, and
\* the queue holds the one SHOW event
C28_Witness ==
    /\ \E c \in Procs : connState[c] = "acked" /\ connData[c] = SHOW_REQUEST
    /\ connState[Prober] = "acked"
    /\ connData[Prober] = <<"S", "H", "O">>
    /\ q[Me] = <<Event("SHOW", NoPayload)>>

\* a connection of the prober has reached the owner: it asked for nothing
BadProbe == connState[Prober] # "none" /\ ~is_show(connData[Prober])

\* the SHOW request of the challenger c waits for the owner's accept
ShowQueued(c) == connTo[c] = Me /\ connState[c] = "queued" /\ is_show(connData[c])

\* the owner has taken the request of c (SHOW is on the queue), or the
\* connection of c itself failed before the request was read
ShowTaken(c) == connState[c] \in {"acked", "dropped_send", "dropped_recv"}

\* C29: after a connection that errors, sends a malformed payload or sends
\* nothing, the accept loop keeps running: the SHOW request of a challenger
\* that waits for the owner is eventually answered with a SHOW event, unless
\* the owner has been told to stop.
C29_ShowAnsweredAfterBadProbe ==
    \A c \in Procs :
        (BadProbe /\ ShowQueued(c)) ~> (ShowTaken(c) \/ ipcStop[Me])

\* C30: once stop() has set the flag and closed the socket, the accept
\* thread eventually leaves its loop and ends, wherever it stood.
C30_AcceptThreadExits == ipcStop[Me] ~> (srvPc[Me] = "exited")

(***************************************************************************)
(* Properties of the events of a hotkey replacement.                       *)
(***************************************************************************)
\* where the hotkey thread stands while wndproc handles WM_APP_SET_HOTKEY
InSetHotkey == {"read_vk", "read_disp", "replace", "rollback"}

\* the hotkey thread returns from wndproc's WM_APP_SET_HOTKEY branch
SetHotkeyDone == winPc \in InSetHotkey /\ winPc' \notin InSetHotkey

\* the hotkey thread takes a step inside that branch without leaving it
SetHotkeyStep == winPc' \in InSetHotkey /\ winPc' # winPc

\* the event that matches the outcome of the request the branch is leaving
OutcomeEvent ==
    IF winPc = "replace"
    THEN Event("INFO", Payload("Hotkey set to", winTmp.display, <<>>))
    ELSE IF registered' # NoReg
    THEN Event("ERROR", Payload("unavailable, kept", winTmp.display, active.display))
    ELSE Event("ERROR", Payload("rollback failed", <<>>, <<>>))

\* C31: the hotkey thread puts exactly one event for each set_hotkey request
\* it processes, when it leaves the branch and not before: Info with the new
\* display when the new combination registered, Error naming the requested
\* and the kept display when the rollback registered the previous one, and
\* the distinct "rollback failed" Error when nothing is registered.
C31_OneEventPerRequest ==
    [][/\ SetHotkeyStep => produced' = produced
       /\ SetHotkeyDone =>
             /\ produced' = Append(produced, OutcomeEvent)
             /\ winPc = "replace" => (registered' = RegKey(winTmp) /\ active' = winTmp)
             /\ winPc = "rollback" =>
                   (registered' \in {RegKey(active), NoReg} /\ active' = active)]_vars

\* a request has been answered with the "rollback failed" error and no
\* combination is registered
C31_Witness ==
    /\ produced # <<>>
    /\ produced[Len(produced)].kind = "ERROR"
    /\ produced[Len(produced)].payload.msg = "rollback failed"
    /\ registered = NoReg
    /\ winPc = "loop"

(***************************************************************************)
(* Liveness of the event queue.                                            *)
(***************************************************************************)
\* exit_app has run: mainloop() has returned or is about to
ControllerStopped == ctrlPc \in {"destroyed", "exited"}

\* the controller leaves a tick of _process_events that is still scheduled
TickEnds == ctrlPc = "draining" /\ ctrlPc' = "idle"

\* C32: under fair scheduling of the drain, the n-th event put on the queue
\* is eventually the n-th event consumed, unless the controller has stopped;
\* a tick takes the events one at a time from the head of the queue and ends
\* only when it finds the queue empty.
C32_EventuallyDrained ==
    /\ \A n \in 1..MaxEvents :
          (Len(produced) >= n) ~> (Len(consumed) >= n \/ ControllerStopped)
    /\ [][/\ TickEnds => (q[Me] = <<>> /\ q'[Me] = <<>>)
          /\ consumed' # consumed =>
                /\ q[Me] # <<>>
                /\ consumed' = Append(consumed, Head(q[Me]))
                /\ q'[Me] = Tail(q[Me])]_vars

\* a running controller is back between two ticks with every one of at least
\* two events consumed
C32_Witness ==
    /\ ctrlPc = "idle"
    /\ Len(produced) >= 2
    /\ consumed = produced
    /\ q[Me] = <<>>

(***************************************************************************)
(* Properties of the pending binding.                                      *)
(***************************************************************************)
\* the binding that one call set_hotkey(mods, vk, display) for the hotkey h
\* hands over
BindingOf(h) ==
    Binding(hotkey_to_win32(h).mods, hotkey_to_win32(h).vk, format_hotkey_display(h))

\* C33: whenever the hotkey thread is about to register a new combination,
\* the modifiers, the key and the display string it has read from the pending
\* fields are those of one set_hotkey call, never a mixture of two calls.
C33_ReplaceReadsOneCall ==
    winPc = "replace" => winTmp \in { BindingOf(h) : h \in HotkeyChoices }

\* The hotkey dialog of a running instance on Windows: the user applies a
\* hotkey, the capture source replaces its binding while other programs take
\* and release combinations, and the controller drains the events.
InitDialog == InitQueue /\ osName = "nt"

NextDialog ==
    \/ \E choice \in HotkeyChoices : ApplyHotkey(choice)
    \/ SetMods
    \/ SetVk
    \/ SetDisplay
    \/ WinSetMsg
    \/ WinReadVk
    \/ WinReadDisplay
    \/ WinRegisterNew
    \/ WinRollback
    \/ \E key \in RegKeys : OtherGrab(key)
    \/ \E key \in RegKeys : OtherRelease(key)
    \/ DrainOne
    \/ DrainEmpty

SpecDialog == InitDialog /\ [][NextDialog]_vars

\* Apply has returned, the hotkey thread has handled every request and the
\* controller has drained every event
DialogSettled ==
    /\ applies >= 1
    /\ ctrlPc = "idle"
    /\ hkReq = NoRequest
    /\ msgq = <<>>
    /\ winPc = "loop"
    /\ q[Me] = <<>>

\* C34: once Apply of the hotkey dialog has completed and the capture source
\* has processed its request, the binding of the hotkey the controller has
\* stored is the binding active in the capture source, whether the request
\* registered or was rolled back.
C34_StoredHotkeyIsActive == DialogSettled => active = BindingOf(hk)

(***************************************************************************)
(* Properties of toggle_pin on the set of entries.                         *)
(***************************************************************************)
\* C35: a toggle_pin command neither adds nor removes an entry: the set of
\* texts of the history after it is the set of texts before it.
C35_TogglePinKeepsTexts ==
    [][lastOp'.op = "toggle_pin" => TextsOf(history') = TextsOf(history)]_vars

\* C35 as the code has it: a toggle_pin command adds no entry and keeps the
\* entry it toggles; it removes an entry only when it unpins one while the
\* unpinned block is already MAX_ITEMS long, and then exactly the last entry
\* of the list (the tail of the unpinned block) goes.
C35_TogglePinEvictsOnlyAtCap ==
    [][lastOp'.op = "toggle_pin" =>
          LET txt == lastOp'.text
              i == IndexOf(history, txt)
              full == Len(SelectSeq(history, IsUnpinned)) >= MAX_ITEMS
          IN  /\ i # 0
              /\ txt \in TextsOf(history')
              /\ TextsOf(history') \subseteq TextsOf(history)
              /\ TextsOf(history) \ TextsOf(history') =
                    IF history[i].pinned /\ full
                    THEN {history[Len(history)].text}
                    ELSE {}
      ]_vars

\* an entry has just been unpinned into a full unpinned block and the tail of
\* the block is gone
C35_Witness ==
    /\ lastOp.op = "toggle_pin"
    /\ lastOp.evicted # {}
    /\ Len(history) = MAX_ITEMS
    /\ history[1].text = lastOp.text
    /\ ~history[1].pinned

(***************************************************************************)
(* Properties of the events left behind a TRAY_EXIT.                       *)
(***************************************************************************)
\* C36: once exit_app has run, no step applies an event any more: the window
\* is not toggled and the monitoring flag is not flipped, in the tick that
\* consumed TRAY_EXIT or in a later one.
C36_NothingAppliedAfterExit ==
    [][ControllerStopped =>
          /\ monitoring_paused' = monitoring_paused
          /\ window_visible' = window_visible]_vars

(***************************************************************************)
(* The start of the Windows listener: _setup_hotkey starts the thread,     *)
(* waits at most two seconds for it and hands over the saved hotkey, while *)
(* the thread creates its window and registers the default combination.    *)
(***************************************************************************)
InitStart == InitHotkeys /\ osName = "nt"

NextStart ==
    \/ SetupHotkey
    \/ SetupReady
    \/ SetMods
    \/ SetVk
    \/ SetDisplay
    \/ WinCreateWindow
    \/ WinRegisterInitial
    \/ WinSetMsg
    \/ WinReadVk
    \/ WinReadDisplay
    \/ WinRegisterNew
    \/ WinRollback
    \/ \E key \in RegKeys : OtherGrab(key)
    \/ \E key \in RegKeys : OtherRelease(key)

\* The control thread and the hotkey thread are threads of the OS: each goes
\* on with its next step.  Nothing is assumed of other programs.
SpecStart ==
    /\ InitStart
    /\ [][NextStart]_vars
    /\ WF_vars(SetupHotkey) /\ WF_vars(SetupReady)
    /\ WF_vars(SetMods) /\ WF_vars(SetVk) /\ WF_vars(SetDisplay)
    /\ WF_vars(WinCreateWindow) /\ WF_vars(WinRegisterInitial)
    /\ WF_vars(WinSetMsg) /\ WF_vars(WinReadVk) /\ WF_vars(WinReadDisplay)
    /\ WF_vars(WinRegisterNew) /\ WF_vars(WinRollback)

\* set_hotkey has returned with the binding of the stored hotkey in the
\* pending fields
HotkeyRequested == ctrlPc = "idle" /\ pending = BindingOf(hk)

\* the hotkey thread has answered a set_hotkey request with one of the three
\* events of wndproc's WM_APP_SET_HOTKEY branch
HotkeyAnswered ==
    \E k \in 1..Len(produced) :
        produced[k].payload.msg \in {"Hotkey set to", "unavailable, kept", "rollback failed"}

\* C37: a binding handed to set_hotkey is eventually taken up by the hotkey
\* thread (registered, or tried and rolled back), however start(), the
\* creation of the window and set_hotkey interleave.
C37_PendingEventuallyApplied == HotkeyRequested ~> HotkeyAnswered

(***************************************************************************)
(* Save and load.                                                          *)
(***************************************************************************)
\* the times at which a later start of the program may load the file
LoadTimes == 0..(StartTime + MaxCaptures + 1)

\* C38: whenever a capture, toggle_pin, remove or clear has just written the
\* history, _load_history applied to the written document gives the history
\* back: the same entries in the same order, with the same text, fold key,
\* timestamp and pinned flag, at whatever time it is loaded.
C38_SaveLoadRoundTrip ==
    lastOp.op \in MutatingCommands =>
        \A now \in LoadTimes : load_history(persisted, now) = history

\* a written history with a pinned entry above a full unpinned block, whose
\* timestamps are not in order, loads back as it is
C38_Witness ==
    /\ lastOp.op \in MutatingCommands
    /\ Len(history) = MAX_ITEMS + 1
    /\ history[1].pinned
    /\ ~history[2].pinned
    /\ history[2].ts < history[3].ts
    /\ load_history(persisted, StartTime + MaxCaptures + 1) = history

=============================================================================
